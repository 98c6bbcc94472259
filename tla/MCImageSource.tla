--------------------------- MODULE MCImageSource ---------------------------
(* Instances of ImageSource: a directory and a link to it, which is also the *)
(* default rootfs; a private registry on a network listed as insecure, a     *)
(* plain one listed by name, and one that is not listed.                     *)
EXTENDS ImageSource

MCLinkTo == [l \in Links |-> CHOOSE d \in Dirs : TRUE]
MCDefault == CHOOSE l \in Links : TRUE

MCHosts ==
    [private |-> [https |-> "selfsigned", http |-> TRUE, private |-> TRUE],
     plain |-> [https |-> "none", http |-> TRUE, private |-> FALSE],
     unlisted |-> [https |-> "selfsigned", http |-> TRUE, private |-> FALSE]]
MCNetworks == {{10, 11}}
MCAddressOf == [private |-> 10, plain |-> 12, unlisted |-> 12]
MCListed == {"plain"}
MCManifests == {<<1>>, <<2, 1>>}

Local(p) == [scheme |-> "", path |-> p]
Docker(h) == [scheme |-> "docker", host |-> h]
Other(h, p) == [scheme |-> "other", host |-> h, path |-> p]
MCUrls ==
    {Local(p) : p \in Dirs \cup Links \cup {NoPath}} \cup {Docker(h) : h \in DOMAIN MCHosts}
    \cup {Other("plain", p) : p \in Dirs}

\* Two goroutines that fetch the same directory, by its path and by a link; or
\* one, and the retainer.
Call(u, creds) == [url |-> u, creds |-> creds]
Anyone == CHOOSE r \in Requests : TRUE
Alone(c) == [r \in {Anyone} |-> c]
MCWorkloads ==
    [calls : {[r \in Requests |-> Call(Local(CHOOSE p \in Dirs \cup Links : (p \in Dirs) <=> (r = Anyone)), FALSE)]},
     persistent : {<<>>}]
    \cup
    [calls : {Alone(Call(Local(p), FALSE)) : p \in Dirs \cup Links},
     persistent : {<<Local(p)>> : p \in Dirs \cup Links}]
    \cup
    [calls : {Alone(Call(Docker(h), FALSE)) : h \in DOMAIN MCHosts}
             \cup {Alone(Call(Docker("private"), TRUE)), Alone(Call(Local(NoPath), FALSE))},
     persistent : {<<Docker("plain"), Docker("private")>>}]

    \cup
    [calls : {Alone(Call(u, FALSE)) : u \in {Other("plain", p) : p \in Dirs}},
     persistent : {<<u>> : u \in {Other("plain", p) : p \in Dirs}}]

\* Every time has nanoseconds of its own; or they are all whole seconds apart.
MCNanoOf == [t \in 1..MaxTime |-> t]
MCWholeSeconds == [t \in 1..MaxTime |-> 7]
=============================================================================
