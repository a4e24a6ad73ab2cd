-------------------------- MODULE IdentityProofs --------------------------
(***************************************************************************)
(* A node keeps its id over every number of starts, crashes, failed opens  *)
(* and torn writes, beside any number of processes and directories.        *)
(***************************************************************************)
EXTENDS Identity, TLAPS

\* Processes run where they were started; those of Tool never use the file for
\* an id; whoever writes it has one to write.
Shape ==
    /\ dir \in DirOf
    /\ \A u \in used : u[1] \in DOMAIN dir
    /\ \A p \in Tool : pc[p] \in {"off", "has_id", "up"}
    /\ \A p \in Process : pc[p] = "writing" => node_id[p] \in Generated

\* How far startNode got tells what is in a file that nobody else uses.  It is
\* only ever emptied when it held no id.
OwnFile ==
    \A p \in DOMAIN dir : OwnConf(p) =>
        /\ pc[p] = "parsed" => data[p] = Conf(p)
        /\ pc[p] = "new" => Conf(p) = NoId
        /\ pc[p] = "writing" => Conf(p) = Torn
        /\ pc[p] = "has_id" /\ ~ Failed("open", p) => Conf(p) \in {Torn, node_id[p]}

\* Where no bind failed, every id on its way from a socket to the file and from
\* there to the network is that of the port.
IdsOfPort ==
    \A p \in DOMAIN dir : BindsInDir(p) =>
        /\ pc[p] # "off" => port[p] = Port[p]
        /\ node_id[p] \in {Zero, Digest[Port[p]]}
        /\ p \notin Tool => /\ Conf(p) \in {NoId, Torn, Digest[Port[p]]}
                            /\ data[p] \in {NoId, Digest[Port[p]]}
        /\ \A id : <<p, id>> \in used => id \in {Zero, Digest[Port[p]]}

Inv == TypeOK /\ Shape /\ OwnFile /\ OneIdentity /\ IdsOfPort

\* The constants as the proofs use them.
LEMMA Constants ==
    /\ NoId \notin Generated /\ Torn \notin Generated /\ Zero \notin Generated
    /\ NoId # Torn /\ NoId # Zero /\ Torn # Zero
    /\ \A p \in Process : Digest[Port[p]] \in Generated /\ Port[p] \in DOMAIN Digest
    /\ NoPort \in DOMAIN Digest
    /\ \A s \in DOMAIN Digest : Digest[s] \in Generated
    /\ \A p, q \in Process \ Tool : Port[p] = Port[q]
    /\ \A p, q \in Process : Digest[Port[p]] = Digest[Port[q]] => Port[p] = Port[q]
    /\ Tool \subseteq Process
    /\ \A d \in DirOf : DOMAIN d \subseteq Process /\ \A p \in DOMAIN d : d[p] \in Dir
  BY IdentityAssumption DEF IdentityAssumption, Generated, Range, IsInjective

\* No file holds an id and nobody has one.
LEMMA InvInit == Init => Inv
  BY Constants
     DEF Init, Inv, TypeOK, Shape, OwnFile, OneIdentity, IdsOfPort, Conf, OwnConf, Failed

\* Any step of one process.
Step(p) ==
    \/ initSocket(p) \/ parseConf(p) \/ isNewConnection(p) \/ truncateConf(p)
    \/ writeConf(p) \/ bootstrap(p) \/ isBootstrap(p) \/ crash(p)

USE DEF Step

\* What a step of p leaves alone: the others, and the file, unless p is about to
\* write it.
Frame(p) ==
    /\ dir' = dir /\ faults \subseteq faults'
    /\ \A q \in Process \ {p} :
          pc'[q] = pc[q] /\ port'[q] = port[q] /\ data'[q] = data[q] /\ node_id'[q] = node_id[q]
    /\ \A u \in used' : u \in used \/ u = <<p, node_id[p]>>
    /\ used \subseteq used'

\* Every action keeps within its frame.
LEMMA StepFrame ==
    ASSUME Inv, NEW p \in DOMAIN dir, Step(p)
    PROVE  Frame(p)
  BY DEF Frame, Inv, TypeOK, initSocket, parseConf, isNewConnection, truncateConf, writeConf,
     bootstrap, isBootstrap, crash, Ends, GoTo, SetId, SetConf, CannotOpen, JoinsAs

\* The types of what a step leaves behind.
LEMMA TypeStep ==
    ASSUME Inv, NEW p \in DOMAIN dir, Step(p)
    PROVE  TypeOK' /\ Shape'
  <1>1. p \in Process /\ dir[p] \in Dir
    BY Constants DEF Inv, Shape
  <1>2. CASE initSocket(p)
    BY <1>1, <1>2, Constants DEF Inv, TypeOK, Shape, initSocket, generateNodeId, GoTo, SetId, At
  <1>3. CASE parseConf(p)
    BY <1>1, <1>3, Constants DEF Inv, TypeOK, Shape, parseConf, Conf, GoTo, SetId, At, Ends
  <1>4. CASE isNewConnection(p)
    BY <1>1, <1>4, Constants DEF Inv, TypeOK, Shape, isNewConnection, Conf, GoTo, SetId, At
  <1>5. CASE truncateConf(p)
    BY <1>1, <1>5, Constants DEF Inv, TypeOK, Shape, truncateConf, generateNodeId, GoTo, SetId, SetConf, At
  <1>6. CASE writeConf(p)
    BY <1>1, <1>6, Constants DEF Inv, TypeOK, Shape, writeConf, GoTo, SetConf, At
  <1>7. CASE bootstrap(p)
    BY <1>1, <1>7, Constants DEF Inv, TypeOK, Shape, bootstrap, Conf, GoTo, SetId, At, Ends, JoinsAs
  <1>8. CASE isBootstrap(p)
    BY <1>1, <1>8, Constants DEF Inv, TypeOK, Shape, isBootstrap, GoTo, At, JoinsAs
  <1>9. CASE crash(p)
    BY <1>1, <1>9, Constants DEF Inv, TypeOK, Shape, crash, GoTo, SetId, At, Ends
  <1> QED
    BY <1>2, <1>3, <1>4, <1>5, <1>6, <1>7, <1>8, <1>9

\* Nobody else writes the file of a node that has it to itself.
LEMMA OwnFileKept ==
    ASSUME Inv, NEW p \in DOMAIN dir, NEW q \in DOMAIN dir \ {p}, OwnConf(q), Step(p)
    PROVE  Conf(q)' = Conf(q)
  <1>1. dir[p] = dir[q] => pc[p] \in {"off", "has_id", "up"}
    BY DEF OwnConf, Inv, Shape
  <1>2. dir' = dir
    BY StepFrame DEF Frame
  <1>3. conf' = conf \/ (dir[p] # dir[q] /\ \E content : SetConf(p, content))
    BY <1>1 DEF initSocket, parseConf, isNewConnection, truncateConf, writeConf, bootstrap,
       isBootstrap, crash, At
  <1>4. dir[q] \in Dir /\ conf \in [Dir -> Generated \cup {NoId, Torn}]
    BY Constants DEF Inv, TypeOK, Shape
  <1> QED
    BY <1>2, <1>3, <1>4 DEF Conf, SetConf

\* What the file of a node holds follows from how far the node got.
LEMMA OwnFileStep ==
    ASSUME Inv, NEW p \in DOMAIN dir, Step(p)
    PROVE  OwnFile'
  <1> SUFFICES ASSUME NEW q \in DOMAIN dir, OwnConf(q)
               PROVE  /\ pc'[q] = "parsed" => data'[q] = Conf(q)'
                      /\ pc'[q] = "new" => Conf(q)' = NoId
                      /\ pc'[q] = "writing" => Conf(q)' = Torn
                      /\ pc'[q] = "has_id" /\ ~ Failed("open", q)' => Conf(q)' \in {Torn, node_id'[q]}
    BY StepFrame DEF OwnFile, OwnConf, Frame
  <1>1. q \in Process /\ dir[q] \in Dir /\ q \notin Tool
    BY Constants DEF Inv, Shape, OwnConf
  <1>2. Failed("open", q) => Failed("open", q)'
    BY StepFrame DEF Frame, Failed
  <1>3. CASE q # p
    BY <1>1, <1>2, <1>3, StepFrame, OwnFileKept DEF Frame, Inv, OwnFile
  <1>4. CASE q = p
    <2>1. /\ pc[p] = "parsed" => data[p] = Conf(p)
          /\ pc[p] = "new" => Conf(p) = NoId
          /\ pc[p] = "writing" => Conf(p) = Torn
          /\ pc[p] = "has_id" /\ ~ Failed("open", p) => Conf(p) \in {Torn, node_id[p]}
      BY <1>4 DEF Inv, OwnFile
    <2>2. dir' = dir /\ p \in Process /\ dir[p] \in Dir
      BY <1>1, <1>4, StepFrame DEF Frame
    <2>3. CASE initSocket(p)
      BY <1>1, <1>4, <2>2, <2>3 DEF Inv, TypeOK, initSocket, GoTo
    <2>4. CASE parseConf(p)
      BY <1>4, <2>2, <2>4 DEF Inv, TypeOK, parseConf, GoTo, Ends, Conf, CannotOpen, Failed
    <2>5. CASE isNewConnection(p)
      BY <1>4, <2>1, <2>2, <2>5, Constants
         DEF Inv, TypeOK, isNewConnection, GoTo, SetId, Conf, CannotOpen, Failed, At
    <2>6. CASE truncateConf(p)
      BY <1>4, <2>2, <2>6 DEF Inv, TypeOK, truncateConf, GoTo, SetConf, Conf, CannotOpen, Failed
    <2>7. CASE writeConf(p)
      BY <1>4, <2>1, <2>2, <2>7 DEF Inv, TypeOK, writeConf, GoTo, SetConf, Conf, At
    <2>8. CASE bootstrap(p)
      BY <1>4, <2>2, <2>8 DEF Inv, TypeOK, bootstrap, GoTo, Ends, JoinsAs
    <2>9. CASE isBootstrap(p)
      BY <1>4, <2>2, <2>9 DEF Inv, TypeOK, isBootstrap, GoTo, JoinsAs
    <2>10. CASE crash(p)
      BY <1>4, <2>2, <2>10 DEF Inv, TypeOK, crash, GoTo, Ends
    <2> QED
      BY <2>3, <2>4, <2>5, <2>6, <2>7, <2>8, <2>9, <2>10
  <1> QED
    BY <1>3, <1>4

\* An id in the file of a node that has it to itself stays there.
LEMMA SavedIdStep ==
    ASSUME Inv, NEW p \in DOMAIN dir, NEW q \in DOMAIN dir, OwnConf(q), Conf(q) \in Generated, Step(p)
    PROVE  Conf(q)' = Conf(q)
  <1>1. CASE q # p
    BY <1>1, OwnFileKept
  <1>2. CASE q = p
    <2>1. pc[p] # "new" /\ pc[p] # "writing"
      BY <1>2, Constants DEF Inv, OwnFile
    <2>2. UNCHANGED <<dir, conf>>
      BY <2>1 DEF initSocket, parseConf, isNewConnection, truncateConf, writeConf, bootstrap,
         isBootstrap, crash, At
    <2> QED
      BY <2>2 DEF Conf
  <1> QED
    BY <1>1, <1>2

\* An id in a file that nodes share stays there or is emptied, but not replaced:
\* whoever writes the file has that very id.
LEMMA SharedIdStep ==
    ASSUME Inv, NEW p \in DOMAIN dir, NEW q \in DOMAIN dir \ Tool, BindsInDir(q),
           Conf(q) \in Generated, Step(p)
    PROVE  Conf(q)' \in {Conf(q), Torn}
  <1>1. /\ dir' = dir /\ p \in Process /\ q \in Process /\ dir[p] \in Dir /\ dir[q] \in Dir
        /\ conf \in [Dir -> Generated \cup {NoId, Torn}]
    BY StepFrame, Constants DEF Frame, Inv, Shape, TypeOK
  <1>2. Conf(q) = Digest[Port[q]]
    BY Constants DEF Inv, IdsOfPort
  <1>3. CASE conf' = conf
    BY <1>1, <1>3 DEF Conf
  <1>4. CASE conf' # conf
    <2>1. pc[p] \in {"new", "writing"} /\ p \notin Tool
      BY <1>4 DEF initSocket, parseConf, isNewConnection, truncateConf, writeConf, bootstrap,
         isBootstrap, crash, At, Inv, Shape
    <2>2. SetConf(p, Torn) \/ (SetConf(p, node_id[p]) /\ pc[p] = "writing")
      BY <1>4 DEF initSocket, parseConf, isNewConnection, truncateConf, writeConf, bootstrap,
         isBootstrap, crash, At
    <2>3. CASE dir[p] # dir[q]
      BY <1>1, <2>2, <2>3 DEF Conf, SetConf
    <2>4. CASE dir[p] = dir[q]
      <3>1. Conf(q)' = Torn \/ (Conf(q)' = node_id[p] /\ pc[p] = "writing")
        BY <1>1, <2>2, <2>4 DEF Conf, SetConf
      <3>2. BindsInDir(p)
        BY <2>4 DEF BindsInDir
      <3>3. pc[p] = "writing" => node_id[p] = Digest[Port[p]]
        BY <1>1, <3>2, Constants DEF Inv, IdsOfPort, Shape
      <3>4. Port[p] = Port[q]
        BY <1>1, <2>1, Constants
      <3> QED
        BY <1>2, <3>1, <3>3, <3>4
    <2> QED
      BY <2>3, <2>4
  <1> QED
    BY <1>3, <1>4

\* A node that joins does so with the id in its file.
LEMMA OneIdentityStep ==
    ASSUME Inv, NEW p \in DOMAIN dir, Step(p)
    PROVE  OneIdentity'
  <1> SUFFICES ASSUME NEW u \in used', OwnConf(u[1]), ~ Failed("open", u[1])'
               PROVE  u[2] = Conf(u[1])'
    BY StepFrame DEF OneIdentity, OwnConf, Frame
  <1>1. ~ Failed("open", u[1])
    BY StepFrame DEF Frame, Failed
  <1>2. CASE u \in used
    <2>1. u[1] \in DOMAIN dir /\ u[2] = Conf(u[1])
      BY <1>1, <1>2 DEF Inv, Shape, OneIdentity
    <2>2. u[2] \in Generated \cup {Zero} /\ Conf(u[1]) \in Generated \cup {NoId, Torn}
      BY <1>2, <2>1, Constants DEF Inv, TypeOK, Shape, Conf
    <2> QED
      BY <2>1, <2>2, Constants, SavedIdStep
  <1>3. CASE u \notin used
    <2>1. u = <<p, node_id[p]>> /\ UNCHANGED conf /\ UNCHANGED dir /\ pc[p] = "has_id" /\ Conf(p) # Torn
      <3>1. u = <<p, node_id[p]>>
        BY <1>3, StepFrame DEF Frame
      <3>2. u[1] = p /\ p \notin Tool
        BY <3>1 DEF OwnConf
      <3> QED
        BY <1>3, <3>1, <3>2 DEF initSocket, parseConf, isNewConnection, truncateConf, writeConf,
           bootstrap, isBootstrap, crash, At, JoinsAs
    <2> QED
      BY <1>1, <2>1 DEF Inv, OwnFile, Conf
  <1> QED
    BY <1>2, <1>3

\* Where no bind has failed, no id but that of the port gets anywhere.
LEMMA IdsOfPortStep ==
    ASSUME Inv, NEW p \in DOMAIN dir, Step(p)
    PROVE  IdsOfPort'
  <1> DEFINE Good(q) == /\ pc[q] # "off" => port[q] = Port[q]
                        /\ node_id[q] \in {Zero, Digest[Port[q]]}
                        /\ q \notin Tool => data[q] \in {NoId, Digest[Port[q]]}
             GoodConf(q) == q \notin Tool => Conf(q) \in {NoId, Torn, Digest[Port[q]]}
             GoodUsed(q) == \A id : <<q, id>> \in used => id \in {Zero, Digest[Port[q]]}
  <1> SUFFICES ASSUME NEW q \in DOMAIN dir, BindsInDir(q)'
               PROVE  Good(q)' /\ GoodConf(q)' /\ GoodUsed(q)'
    BY StepFrame DEF IdsOfPort, Frame
  <1>1. dir' = dir /\ p \in Process /\ q \in Process /\ dir[p] \in Dir /\ dir[q] \in Dir
    BY StepFrame, Constants DEF Frame, Inv, Shape
  <1>2. BindsInDir(q) /\ (dir[p] = dir[q] => BindsInDir(p) /\ ~ Failed("bind", p)')
    BY <1>1, StepFrame DEF BindsInDir, Failed, Frame
  <1>3. /\ Good(q) /\ GoodConf(q) /\ GoodUsed(q)
        /\ dir[p] = dir[q] => Good(p) /\ GoodConf(p) /\ GoodUsed(p)
    BY <1>2 DEF Inv, IdsOfPort
  <1> DEFINE id == Digest[Port[p]]
  <1>4. dir[p] = dir[q] => Good(p)'
    <2> SUFFICES ASSUME dir[p] = dir[q] PROVE Good(p)'
      OBVIOUS
    <2>1. CASE initSocket(p)
      BY <1>1, <1>2, <1>3, <2>1
         DEF Inv, TypeOK, initSocket, generateNodeId, GoTo, SetId, Failed, At
    <2>2. CASE parseConf(p)
      BY <1>1, <1>3, <2>2 DEF Inv, TypeOK, parseConf, GoTo, SetId, Ends, Conf, At
    <2>3. CASE isNewConnection(p)
      BY <1>1, <1>3, <2>3 DEF Inv, TypeOK, Shape, isNewConnection, GoTo, SetId, At
    <2>4. CASE truncateConf(p)
      BY <1>1, <1>3, <2>4 DEF Inv, TypeOK, truncateConf, generateNodeId, GoTo, SetId, At
    <2>5. CASE writeConf(p)
      BY <1>1, <1>3, <2>5 DEF Inv, TypeOK, writeConf, GoTo, At
    <2>6. CASE bootstrap(p)
      BY <1>1, <1>3, <2>6 DEF Inv, TypeOK, bootstrap, GoTo, SetId, Ends, JoinsAs, At
    <2>7. CASE isBootstrap(p)
      BY <1>1, <1>3, <2>7 DEF Inv, TypeOK, isBootstrap, GoTo, JoinsAs, At
    <2>8. CASE crash(p)
      BY <1>1, <1>3, <2>8 DEF Inv, TypeOK, crash, GoTo, SetId, Ends
    <2> QED
      BY <2>1, <2>2, <2>3, <2>4, <2>5, <2>6, <2>7, <2>8
  <1>5. Good(q)'
    <2>1. CASE q = p
      BY <1>4, <2>1
    <2>2. CASE q # p
      BY <1>1, <1>3, <2>2, StepFrame DEF Frame
    <2> QED
      BY <2>1, <2>2
  <1>6. GoodUsed(q)'
    <2>1. ASSUME NEW i, <<q, i>> \in used', <<q, i>> \notin used
          PROVE  q = p /\ i = node_id[p]
      BY <2>1, StepFrame DEF Frame
    <2> QED
      BY <1>3, <2>1
  <1>7. GoodConf(q)'
    <2> SUFFICES ASSUME q \notin Tool
                 PROVE  Conf(q)' \in {NoId, Torn, Digest[Port[q]]}
      OBVIOUS
    <2>1. CASE conf' = conf
      BY <1>1, <1>3, <2>1 DEF Conf
    <2>2. CASE conf' # conf
      <3>1. pc[p] \in {"new", "writing"} /\ p \notin Tool
        BY <2>2 DEF initSocket, parseConf, isNewConnection, truncateConf, writeConf, bootstrap,
           isBootstrap, crash, At, Inv, Shape
      <3>2. SetConf(p, Torn) \/ (SetConf(p, node_id[p]) /\ pc[p] = "writing")
        BY <2>2 DEF initSocket, parseConf, isNewConnection, truncateConf, writeConf, bootstrap,
           isBootstrap, crash, At
      <3>3. conf \in [Dir -> Generated \cup {NoId, Torn}]
        BY DEF Inv, TypeOK
      <3>4. CASE dir[p] # dir[q]
        BY <1>1, <1>3, <3>2, <3>3, <3>4 DEF Conf, SetConf
      <3>5. CASE dir[p] = dir[q]
        <4>1. Conf(q)' = Torn \/ (Conf(q)' = node_id[p] /\ pc[p] = "writing")
          BY <1>1, <3>2, <3>3, <3>5 DEF Conf, SetConf
        <4>2. pc[p] = "writing" => node_id[p] = Digest[Port[p]]
          BY <1>1, <1>3, <3>5, Constants DEF Inv, Shape
        <4>3. Port[p] = Port[q]
          BY <1>1, <3>1, Constants
        <4> QED
          BY <4>1, <4>2, <4>3
      <3> QED
        BY <3>4, <3>5
    <2> QED
      BY <2>1, <2>2
  <1> QED
    BY <1>5, <1>6, <1>7

\* The invariant is inductive.
LEMMA InvNext == Inv /\ [Next]_vars => Inv'
  <1> SUFFICES ASSUME Inv, [Next]_vars PROVE Inv'
    OBVIOUS
  <1>1. ASSUME NEW p \in DOMAIN dir, Step(p)
        PROVE  Inv'
    BY <1>1, TypeStep, OwnFileStep, OneIdentityStep, IdsOfPortStep DEF Inv
  <1>2. CASE UNCHANGED vars
    BY <1>2 DEF vars, process, Inv, TypeOK, Shape, OwnFile, OneIdentity, IdsOfPort, Conf, OwnConf,
       BindsInDir, Failed
  <1> QED
    BY <1>1, <1>2 DEF Next

(***************************************************************************)
(* The inductive invariant: how far each start got tells what is in the    *)
(* file and in the hands of the node, over every crash and failure.        *)
(***************************************************************************)
THEOREM Invariance == Spec => []Inv
  BY InvInit, InvNext, PTL DEF Spec

\* The state stays well typed: nobody joins with what it read from a torn file.
THEOREM TypeCorrect == Spec => []TypeOK
  <1>1. Inv => TypeOK
    BY DEF Inv
  <1> QED
    BY <1>1, Invariance, PTL

\* A node that has its conf.json to itself shows the network one id.
THEOREM OneIdentityCorrect == Spec => []OneIdentity
  <1>1. Inv => OneIdentity
    BY DEF Inv
  <1> QED
    BY <1>1, Invariance, PTL

\* Two nodes have one id exactly if they have one port.
THEOREM IdIsPortCorrect == Spec => []IdIsPort
  <1>1. Inv => IdIsPort
    <2> SUFFICES ASSUME Inv, NEW u \in used, NEW v \in used,
                        BindsInDir(u[1]), BindsInDir(v[1]), Zero \notin {u[2], v[2]}
                 PROVE  u[2] = v[2] <=> Port[u[1]] = Port[v[1]]
      BY DEF IdIsPort
    <2>1. ASSUME NEW w \in used, BindsInDir(w[1]), w[2] # Zero
          PROVE  w[1] \in Process /\ w[2] = Digest[Port[w[1]]]
      <3>1. w = <<w[1], w[2]>> /\ w[1] \in Process /\ w[1] \in DOMAIN dir
        BY DEF Inv, TypeOK, Shape
      <3> QED
        BY <2>1, <3>1 DEF Inv, IdsOfPort
    <2> QED
      BY <2>1, Constants
  <1> QED
    BY <1>1, Invariance, PTL

(***************************************************************************)
(* An id once saved is never lost or replaced where one node has the file  *)
(* to itself, and where nodes share it is at worst emptied, whatever the   *)
(* other processes, the disk and the power do.                             *)
(***************************************************************************)
THEOREM SavedIdCorrect == Spec => SavedIdSurvives
  <1>1. Inv /\ [Next]_vars =>
           [\A p \in DOMAIN dir \ Tool : Conf(p) \in Generated =>
               /\ OwnConf(p) => Conf(p)' = Conf(p)
               /\ BindsInDir(p) => Conf(p)' \in {Conf(p), Torn}]_vars
    BY SavedIdStep, SharedIdStep DEF Next
  <1> QED
    BY <1>1, Invariance, PTL DEF Spec, SavedIdSurvives
===========================================================================
