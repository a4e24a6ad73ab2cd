----------------------------- MODULE Identity -----------------------------
(***************************************************************************)
(* How a node gets its id and keeps it: Node::startNode with initSocket,   *)
(* initNodeId, isNewConnection, generateNodeId and the part of bootstrap   *)
(* that reads conf/conf.json (node.cpp), over any number of starts and     *)
(* crashes.  The path is relative, so processes started in one directory   *)
(* share the file.  Each use of the file is a step of its own: a crash,    *)
(* another process, a failing open or write may come between any two.      *)
(***************************************************************************)
EXTENDS Functions

CONSTANTS
    Process,           \* the nodes
    Dir,               \* working directories, each on a machine of its own
    DirOf,             \* the ways some of them are started in directories
    Tool,              \* those of Kademlia/app: bootstrap or fake, id not kept
    Port,              \* kUdpPort of each
    NoPort,            \* the localPort of a socket that did not bind
    Digest,            \* SHAKE128 of local address and port; the address is Any
    NoId,              \* no "node_id" in conf.json
    Torn,              \* conf.json cut short: not a JSON text
    Zero               \* node_id_ of a new Node

Generated == Range(Digest)

ASSUME IdentityAssumption ==
    /\ Tool \subseteq Process
    /\ \A d \in DirOf : DOMAIN d \subseteq Process /\ Range(d) \subseteq Dir
    /\ NoPort \notin Range(Port)
    /\ DOMAIN Port = Process /\ DOMAIN Digest = Range(Port) \cup {NoPort}
    /\ IsInjective(Digest)
    /\ {NoId, Torn, Zero} \cap Generated = {} /\ NoId # Torn /\ NoId # Zero /\ Torn # Zero
    /\ \A p, q \in Process \ Tool : Port[p] = Port[q]   \* 1337 in Messenger/app/main.cpp

VARIABLES
    dir,               \* the directory of each process that is started
    conf,              \* conf.json of each directory: an id, NoId or Torn
    pc,                \* how far startNode got
    port,              \* localPort of the socket
    data,              \* the "node_id" of the JSON that initNodeId parsed
    node_id,           \* node_id_
    used,              \* history: <<process, id>> of every datagram sent
    faults             \* history: <<"open" or "bind", process>> that failed

process == <<pc, port, data, node_id>>
vars == <<dir, conf, process, used, faults>>

Init ==
    /\ dir \in DirOf
    /\ conf = [d \in Dir |-> NoId]
    /\ pc = [p \in Process |-> "off"]
    /\ port = [p \in Process |-> NoPort]
    /\ data = [p \in Process |-> NoId]
    /\ node_id = [p \in Process |-> Zero]
    /\ used = {}
    /\ faults = {}

Conf(p) == conf[dir[p]]

At(p, step) == pc[p] = step

GoTo(p, step) == pc' = [pc EXCEPT ![p] = step]

SetConf(p, content) == conf' = [conf EXCEPT ![dir[p]] = content]

SetId(p, id) == node_id' = [node_id EXCEPT ![p] = id]

CannotOpen(p) == faults' = faults \cup {<<"open", p>>}

\* An exception nobody catches, a kill or a power cut: the Node object is gone.
Ends(p) ==
    /\ GoTo(p, "off")
    /\ port' = [port EXCEPT ![p] = NoPort]
    /\ data' = [data EXCEPT ![p] = NoId]
    /\ SetId(p, Zero)

-----------------------------------------------------------------------------
generateNodeId_AddressOnly(socket) == Digest[NoPort]

generateNodeId(socket) == Digest[socket]

\* initSocket: a bind that fails is only logged.  A bootstrap or fake node then
\* takes the id generated for its socket.
initSocket(p) ==
    /\ At(p, "off")
    /\ \E socket \in {Port[p], NoPort} :
        /\ port' = [port EXCEPT ![p] = socket]
        /\ faults' = IF socket = NoPort THEN faults \cup {<<"bind", p>>} ELSE faults
        /\ IF p \in Tool
           THEN GoTo(p, "has_id") /\ SetId(p, generateNodeId(socket))
           ELSE GoTo(p, "bound") /\ UNCHANGED node_id
    /\ UNCHANGED <<dir, conf, data, used>>

parseConf_NoThrow(p) ==
    /\ At(p, "bound")
    /\ GoTo(p, "parsed")
    /\ data' = [data EXCEPT ![p] = Conf(p)]
    /\ UNCHANGED <<dir, conf, port, node_id, used, faults>>

\* The first reading of conf.json in initNodeId, outside its try block.
parseConf(p) ==
    /\ At(p, "bound")
    /\ \/ CannotOpen(p) /\ GoTo(p, "has_id") /\ UNCHANGED <<port, data, node_id>>
       \/ Conf(p) = Torn /\ Ends(p) /\ UNCHANGED faults
       \/ /\ Conf(p) # Torn /\ GoTo(p, "parsed")
          /\ data' = [data EXCEPT ![p] = Conf(p)]
          /\ UNCHANGED <<port, node_id, faults>>
    /\ UNCHANGED <<dir, conf, used>>

isNewConnection_Always(p) ==
    /\ At(p, "parsed")
    /\ GoTo(p, "new")
    /\ UNCHANGED <<dir, conf, port, data, node_id, used, faults>>

(***************************************************************************)
(* isNewConnection reads the file again, inside the try block.  Without    *)
(* "node_id" an id is generated; otherwise, and when the file does not     *)
(* open, the id is taken from the first reading, and where that had none,  *)
(* or this one cannot be parsed, the exception leaves node_id_ as it is.   *)
(***************************************************************************)
isNewConnection(p) ==
    /\ At(p, "parsed")
    /\ \/ Conf(p) = NoId /\ GoTo(p, "new") /\ UNCHANGED <<node_id, faults>>
       \/ /\ Conf(p) = Torn /\ GoTo(p, "has_id") /\ UNCHANGED <<node_id, faults>>
       \/ /\ \/ Conf(p) \in Generated /\ UNCHANGED faults
             \/ CannotOpen(p)
          /\ GoTo(p, "has_id")
          /\ IF data[p] = NoId THEN UNCHANGED node_id ELSE SetId(p, data[p])
    /\ UNCHANGED <<dir, conf, port, data, used>>

\* The id is generated and std::ofstream opened, which empties the file.
truncateConf(p) ==
    /\ At(p, "new")
    /\ SetId(p, generateNodeId(port[p]))
    /\ \/ SetConf(p, Torn) /\ GoTo(p, "writing") /\ UNCHANGED faults
       \/ CannotOpen(p) /\ GoTo(p, "has_id") /\ UNCHANGED conf
    /\ UNCHANGED <<dir, port, data, used>>

writeConf_WithoutId(p) ==
    /\ At(p, "writing")
    /\ GoTo(p, "has_id")
    /\ \/ SetConf(p, NoId)
       \/ UNCHANGED conf
    /\ UNCHANGED <<dir, port, data, node_id, used, faults>>

\* The text is written, and flushed when the stream goes out of scope.  Nobody
\* looks whether that worked.
writeConf(p) ==
    /\ At(p, "writing")
    /\ GoTo(p, "has_id")
    /\ \/ SetConf(p, node_id[p])
       \/ SetConf(p, Torn)
    /\ UNCHANGED <<dir, port, data, node_id, used, faults>>

JoinsAs(p, id) == GoTo(p, "up") /\ used' = used \cup {<<p, id>>}

\* bootstrap: the address to PING is in the same file, parsed without a try.
bootstrap(p) ==
    /\ At(p, "has_id")
    /\ \/ CannotOpen(p) /\ GoTo(p, "up") /\ UNCHANGED <<port, data, node_id, used>>
       \/ Conf(p) = Torn /\ Ends(p) /\ UNCHANGED <<used, faults>>
       \/ Conf(p) # Torn /\ JoinsAs(p, node_id[p]) /\ UNCHANGED <<port, data, node_id, faults>>
    /\ UNCHANGED <<dir, conf>>

\* startNode(true) does not call bootstrap: the node answers when it is asked.
isBootstrap(p) ==
    /\ At(p, "has_id") /\ p \in Tool
    /\ JoinsAs(p, node_id[p])
    /\ UNCHANGED <<dir, conf, port, data, node_id, faults>>

crash(p) ==
    /\ ~ At(p, "off")
    /\ Ends(p)
    /\ UNCHANGED <<dir, conf, used, faults>>

Next ==
    \E p \in DOMAIN dir :
        \/ initSocket(p) \/ parseConf(p) \/ isNewConnection(p) \/ truncateConf(p)
        \/ writeConf(p) \/ bootstrap(p) \/ isBootstrap(p) \/ crash(p)

Spec == Init /\ [][Next]_vars

-----------------------------------------------------------------------------
Failed(kind, p) == <<kind, p>> \in faults

\* The only process in its directory that uses conf.json for its id.
OwnConf(p) ==
    /\ p \notin Tool
    /\ \A q \in DOMAIN dir \ {p} : dir[q] = dir[p] => q \in Tool

\* No socket of a process in the directory of p failed to bind so far.
BindsInDir(p) == \A q \in DOMAIN dir : dir[q] = dir[p] => ~ Failed("bind", q)

(***************************************************************************)
(* Properties.                                                             *)
(***************************************************************************)

\* The state is well typed: a file holds a generated id, none, or a torn text,
\* and nobody joins with what was read from a torn one.
TypeOK ==
    /\ conf \in [Dir -> Generated \cup {NoId, Torn}]
    /\ pc \in [Process -> {"off", "bound", "parsed", "new", "writing", "has_id", "up"}]
    /\ port \in [Process -> DOMAIN Digest]
    /\ data \in [Process -> Generated \cup {NoId}]
    /\ node_id \in [Process -> Generated \cup {Zero}]
    /\ used \subseteq Process \X (Generated \cup {Zero})

(***************************************************************************)
(* Over all its starts and crashes a node that has its conf.json to itself *)
(* and can open it shows the network one id, never 0, and that id is in    *)
(* the file: it never joins with an id it could lose.  Failed writes and   *)
(* crashes between them may keep it from starting but not change its id.   *)
(***************************************************************************)
OneIdentity ==
    \A u \in used :
        OwnConf(u[1]) /\ ~ Failed("open", u[1]) => u[2] = Conf(u[1])

(***************************************************************************)
(* Once an id is in a conf.json, no later start, crash or failed write of  *)
(* any process loses or replaces it where one node has the file to itself, *)
(* whether or not it can always be opened.  Where nodes share it, one that *)
(* read it before there was an id may yet empty it, but no other id takes  *)
(* its place, provided that the sockets of all that share it bound.        *)
(***************************************************************************)
SavedIdSurvives ==
    [][\A p \in DOMAIN dir \ Tool : Conf(p) \in Generated =>
          /\ OwnConf(p) => Conf(p)' = Conf(p)
          /\ BindsInDir(p) => Conf(p)' \in {Conf(p), Torn}]_vars

(***************************************************************************)
(* Nodes have the same id exactly if they have the same port, whatever     *)
(* files they share and in whatever order they use them, provided that the *)
(* sockets of all that share a file bound, and that they got an id at all. *)
(***************************************************************************)
IdIsPort ==
    \A u, v \in used :
        BindsInDir(u[1]) /\ BindsInDir(v[1]) /\ Zero \notin {u[2], v[2]}
        => (u[2] = v[2] <=> Port[u[1]] = Port[v[1]])

(***************************************************************************)
(* What a comment says of the code, and it does not do.                    *)
(***************************************************************************)

\* node.cpp:285 "Generating id by ip:port": nodes on different machines have
\* different ids.  The address hashed is the one the socket is bound to, Any,
\* so this fails without any fault.
MachinesDiffer ==
    \A u, v \in used : dir[u[1]] # dir[v[1]] /\ faults = {} => u[2] # v[2]
=============================================================================
