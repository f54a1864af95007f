------------------------- MODULE SocketOwnerProofs -------------------------
(***************************************************************************)
(* A process is counted for what it took part in, for any number of processes, *)
(* sockets, flows and addresses: both caches only ever hold what was true once. *)
(***************************************************************************)
EXTENDS SocketOwner, TLAPS

\* The parts of the types the argument needs.
Types ==
  /\ fds \in [Living -> SUBSET DOMAIN socket]
  /\ DOMAIN conninode \subseteq Keys
  /\ pc \in {"mapping", "remapping"} => key \in Keys
  /\ pc = "remapping" => key \in DOMAIN conninode
  /\ pc = "idle" => left = {} /\ link = NoInode

\* The history knows who has which socket now.
HoldersKnown == \A pid \in Living : \A i \in fds[pid] : <<pid, i>> \in held

\* A mapping of conninode leads to a socket of its flow, open or not.
ConninodeSound ==
  \A k \in DOMAIN conninode :
    conninode[k] \in DOMAIN socket /\ socket[conninode[k]].flow = k.flow

\* inodeproc, and the link that is about to be entered, name a process that has
\* held the socket.
InodeprocSound == \A i \in DOMAIN inodeproc : <<inodeproc[i], i>> \in held

LinkSound == link # NoInode => <<cursor, link>> \in held

IInv ==
  Types /\ HoldersKnown /\ ConninodeSound /\ InodeprocSound /\ LinkSound /\ OwnerTookPart

-----------------------------------------------------------------------------

LEMMA InitHolds == Init => IInv
BY DEF Init, IInv, Types, HoldersKnown, ConninodeSound, InodeprocSound, LinkSound,
       OwnerTookPart, Living, NoInode, NoPid

-----------------------------------------------------------------------------
(* The kernel: what was true once stays written down                        *)

\* What the history gains, it keeps.
Grows ==
  /\ DOMAIN socket \subseteq DOMAIN socket'
  /\ \A i \in DOMAIN socket : socket'[i] = socket[i]
  /\ held \subseteq held'

\* The holders of the sockets there are.
Holders == fds \in [Living -> SUBSET DOMAIN socket] /\ HoldersKnown

\* Every step of the kernel keeps the history, and writes down who gets a socket.
LEMMA KernelGrows == Holders /\ Kernel => Holders' /\ Grows
<1> SUFFICES ASSUME Holders, Kernel
             PROVE  Holders' /\ Grows
  OBVIOUS
<1> USE DEF Holders, HoldersKnown, Grows, Living
<1>1. CASE \E pid \in Pids, inode \in Inodes, k \in Keys : OpenSocket(pid, inode, k)
  <2>1. PICK pid \in Pids, inode \in Inodes, k \in Keys : OpenSocket(pid, inode, k)
    BY <1>1
  <2>2. /\ inode \notin DOMAIN socket
        /\ pid \in DOMAIN fds
        /\ fds' = [fds EXCEPT ![pid] = @ \cup {inode}]
        /\ socket' = With(socket, inode, k)
        /\ held' = held \cup {<<pid, inode>>}
    BY <2>1 DEF OpenSocket
  <2>3. /\ DOMAIN socket' = DOMAIN socket \cup {inode}
        /\ \A i \in DOMAIN socket : socket'[i] = socket[i]
    BY <2>2 DEF With
  <2>4. /\ DOMAIN fds' = DOMAIN fds
        /\ \A p \in DOMAIN fds : fds'[p] = IF p = pid THEN fds[p] \cup {inode} ELSE fds[p]
    BY <2>2
  <2>5. fds' \in [DOMAIN fds' -> SUBSET DOMAIN socket']
    BY <2>2, <2>3, <2>4
  <2>6. QED
    BY <2>2, <2>3, <2>4, <2>5
<1>2. CASE \E pid, child \in Pids : Fork(pid, child)
  <2>1. PICK pid \in Pids, child \in Pids : Fork(pid, child)
    BY <1>2
  <2>2. /\ pid \in DOMAIN fds
        /\ fds' = With(fds, child, fds[pid])
        /\ held' = held \cup {<<child, inode>> : inode \in fds[pid]}
        /\ socket' = socket
    BY <2>1 DEF Fork
  <2>3. /\ DOMAIN fds' = DOMAIN fds \cup {child}
        /\ \A p \in DOMAIN fds' : fds'[p] = IF p = child THEN fds[pid] ELSE fds[p]
    BY <2>2 DEF With
  <2>4. fds' \in [DOMAIN fds' -> SUBSET DOMAIN socket']
    BY <2>2, <2>3 DEF With
  <2>5. QED
    BY <2>2, <2>3, <2>4
<1>3. CASE \E pid \in Pids, inode \in Inodes : CloseSocket(pid, inode)
  BY <1>3 DEF CloseSocket
<1>4. CASE \E pid \in Pids : Exit(pid)
  BY <1>4 DEF Exit
<1>5. CASE \E k \in Keys : TimeWaitEnds(k)
  BY <1>5 DEF TimeWaitEnds
<1>6. QED
  BY <1>1, <1>2, <1>3, <1>4, <1>5 DEF Kernel

\* What the monitor thread keeps is about the history, so the kernel leaves it true.
LEMMA KernelStep == IInv /\ Kernel => IInv'
<1> SUFFICES ASSUME IInv, Kernel
             PROVE  IInv'
  OBVIOUS
<1>1. Holders' /\ Grows
  BY KernelGrows DEF IInv, Types, Holders
<1>2. UNCHANGED <<conninode, inodeproc, pc, key, cursor, left, link, owner>>
  BY DEF Kernel, walkVars
<1>3. Types' /\ HoldersKnown'
  BY <1>1, <1>2 DEF IInv, Types, Holders, Living
<1>4. ConninodeSound'
  BY <1>1, <1>2 DEF IInv, ConninodeSound, Grows
<1>5. InodeprocSound' /\ LinkSound'
  BY <1>1, <1>2 DEF IInv, InodeprocSound, LinkSound, Grows
<1>6. OwnerTookPart'
  <2> SUFFICES ASSUME pc = "idle", owner # NoPid
               PROVE  \E i \in DOMAIN socket' :
                        socket'[i].flow = key.flow /\ <<owner, i>> \in held'
    BY <1>2 DEF OwnerTookPart
  <2>1. PICK i \in DOMAIN socket : socket[i].flow = key.flow /\ <<owner, i>> \in held
    BY DEF IInv, OwnerTookPart
  <2>2. QED
    BY <1>1, <2>1 DEF Grows
<1>7. QED
  BY <1>3, <1>4, <1>5, <1>6 DEF IInv

-----------------------------------------------------------------------------
(* The monitor thread                                                      *)

\* The process of a socket of the key's flow has taken part in the flow.
LEMMA ProcessOfSocket ==
  ASSUME InodeprocSound, NEW k, NEW i \in DOMAIN socket, socket[i].flow = k.flow,
         i \in DOMAIN inodeproc
  PROVE  \E j \in DOMAIN socket : socket[j].flow = k.flow /\ <<inodeproc[i], j>> \in held
BY DEF InodeprocSound

LEMMA GetProcessStep == IInv /\ (\E k \in Keys, out \in BOOLEAN : GetProcess(k, out)) => IInv'
<1> SUFFICES ASSUME IInv, NEW k \in Keys, NEW out \in BOOLEAN, GetProcess(k, out)
             PROVE  IInv'
  OBVIOUS
<1>1. /\ pc = "idle" /\ key' = k
      /\ UNCHANGED <<fds, socket, held, conninode, inodeproc, left, link>>
  BY DEF GetProcess, kernelVars
<1>2. left = {} /\ link = NoInode
  BY <1>1 DEF IInv, Types
<1>3. HoldersKnown' /\ ConninodeSound' /\ InodeprocSound' /\ LinkSound'
  BY <1>1, <1>2 DEF IInv, HoldersKnown, ConninodeSound, InodeprocSound, LinkSound, Living
<1>4. CASE k \in DOMAIN conninode /\ FindPID(conninode[k])
  <2>1. conninode[k] \in DOMAIN socket /\ socket[conninode[k]].flow = k.flow
    BY <1>4 DEF IInv, ConninodeSound
  <2>2. CASE conninode[k] \in DOMAIN inodeproc /\ Answer(inodeproc[conninode[k]])
    <3>1. pc' = "idle" /\ owner' = inodeproc[conninode[k]]
      BY <2>2 DEF Answer
    <3>2. \E j \in DOMAIN socket : socket[j].flow = k.flow /\ <<owner', j>> \in held
      BY <2>1, <2>2, <3>1, ProcessOfSocket DEF IInv
    <3>3. Types' /\ OwnerTookPart'
      BY <1>1, <1>2, <3>1, <3>2 DEF IInv, Types, OwnerTookPart, Living
    <3>4. QED
      BY <1>3, <3>3 DEF IInv
  <2>3. CASE StartWalk("remapping")
    BY <1>1, <1>2, <1>3, <1>4, <2>3 DEF IInv, Types, OwnerTookPart, StartWalk, Living
  <2>4. QED
    BY <1>4, <2>2, <2>3 DEF FindPID
<1>5. CASE StartWalk("mapping")
  BY <1>1, <1>2, <1>3, <1>5 DEF IInv, Types, OwnerTookPart, StartWalk, Living
<1>6. QED
  BY <1>4, <1>5 DEF GetProcess

LEMMA ReadDirStep == IInv /\ (\E pid \in Pids : ReadDir(pid)) => IInv'
BY DEF IInv, Types, HoldersKnown, ConninodeSound, InodeprocSound, LinkSound,
       OwnerTookPart, ReadDir, kernelVars, Living

LEMMA ReadLinkStep == IInv /\ (\E inode \in Inodes : ReadLink(inode)) => IInv'
<1> SUFFICES ASSUME IInv, NEW inode \in Inodes, ReadLink(inode)
             PROVE  IInv'
  OBVIOUS
<1>1. UNCHANGED <<fds, socket, held, conninode, inodeproc, pc, key, cursor, owner>>
  BY DEF ReadLink, kernelVars
<1>2. pc # "idle"
  BY DEF IInv, Types, ReadLink
<1>3. LinkSound'
  BY <1>1 DEF IInv, HoldersKnown, LinkSound, ReadLink
<1>4. QED
  BY <1>1, <1>2, <1>3 DEF IInv, Types, HoldersKnown, ConninodeSound, InodeprocSound,
                          OwnerTookPart, Living

LEMMA SetNodeStep == IInv /\ SetNode => IInv'
<1> SUFFICES ASSUME IInv, SetNode
             PROVE  IInv'
  OBVIOUS
<1>1. /\ link # NoInode
      /\ UNCHANGED <<fds, socket, held, conninode, key, cursor, left, owner>>
  BY DEF SetNode, kernelVars
<1>2. pc # "idle" /\ <<cursor, link>> \in held
  BY <1>1 DEF IInv, Types, LinkSound
<1>3. CASE inodeproc' = With(inodeproc, link, cursor) /\ link' = NoInode /\ pc' = pc
  <2>1. InodeprocSound'
    BY <1>1, <1>2, <1>3 DEF IInv, InodeprocSound, With
  <2>2. QED
    BY <1>1, <1>2, <1>3, <2>1 DEF IInv, Types, HoldersKnown, ConninodeSound, LinkSound,
                                  OwnerTookPart, Living
<1>4. CASE pc' = "exited" /\ inodeproc' = inodeproc /\ link' = link
  BY <1>1, <1>4 DEF IInv, Types, HoldersKnown, ConninodeSound, InodeprocSound, LinkSound,
                    OwnerTookPart, Living
<1>5. QED
  BY <1>3, <1>4 DEF SetNode

\* The rows of /proc/net/tcp map every key to a socket of its flow.
LEMMA RefreshIsSound ==
  ASSUME IInv, RefreshConninode, socket' = socket
  PROVE  ConninodeSound' /\ DOMAIN conninode' \subseteq Keys
<1>1. PICK last \in [Flows -> Open \cup {NoInode}] :
        /\ \A f \in Flows : Rows(f) # {} => last[f] \in Rows(f)
        /\ conninode' =
             [k \in Kept \cup Entered |->
                IF k \notin Entered THEN conninode[k]
                ELSE IF k.addr \in local_addrs THEN last[k.flow]
                ELSE CHOOSE i \in Rows(k.flow) : socket[i].addr = k.addr]
  BY DEF RefreshConninode
<1>2. Open \subseteq DOMAIN socket
  BY DEF IInv, Types, Open
<1>3. \A k \in Keys : \A i \in Rows(k.flow) : i \in DOMAIN socket /\ socket[i].flow = k.flow
  BY <1>2 DEF Rows
<1>4. Entered \subseteq Keys /\ Kept \subseteq Keys
  BY DEF IInv, Types, Entered, Kept
<1>5. ASSUME NEW k \in DOMAIN conninode'
      PROVE  conninode'[k] \in DOMAIN socket /\ socket[conninode'[k]].flow = k.flow
  <2>1. CASE k \notin Entered
    BY <1>1, <1>5, <2>1 DEF IInv, ConninodeSound, Kept
  <2>2. CASE k \in Entered
    <3>1. k \in Keys /\ k.flow \in Flows /\ Rows(k.flow) # {}
      BY <2>2 DEF Entered, Keys
    <3>2. CASE k.addr \in local_addrs
      BY <1>1, <1>3, <1>5, <2>2, <3>1, <3>2
    <3>3. CASE k.addr \notin local_addrs
      <4>1. \E i \in Rows(k.flow) : socket[i].addr = k.addr
        BY <2>2, <3>3 DEF Entered
      <4>2. conninode'[k] = CHOOSE i \in Rows(k.flow) : socket[i].addr = k.addr
        BY <1>1, <1>5, <2>2, <3>3
      <4>3. conninode'[k] \in Rows(k.flow)
        BY <4>1, <4>2
      <4>4. QED
        BY <1>3, <3>1, <4>3
    <3>4. QED
      BY <3>2, <3>3
  <2>3. QED
    BY <2>1, <2>2
<1>6. QED
  BY <1>1, <1>4, <1>5 DEF ConninodeSound

LEMMA RefreshStep == IInv /\ Refresh => IInv'
<1> SUFFICES ASSUME IInv, Refresh
             PROVE  IInv'
  OBVIOUS
<1>1. /\ pc = "mapping" /\ left = {} /\ link = NoInode /\ key' = key
      /\ RefreshConninode
      /\ UNCHANGED <<fds, socket, held, inodeproc, left, link>>
  BY DEF Refresh, WalkIsOver, kernelVars
<1>2. ConninodeSound' /\ DOMAIN conninode' \subseteq Keys
  BY <1>1, RefreshIsSound
<1>3. HoldersKnown' /\ InodeprocSound' /\ LinkSound'
  BY <1>1 DEF IInv, HoldersKnown, InodeprocSound, LinkSound, Living
<1>4. key \in Keys
  BY <1>1 DEF IInv, Types
<1>5. CASE key \in DOMAIN conninode' /\ FindPID(conninode'[key])
  <2>1. conninode'[key] \in DOMAIN socket /\ socket[conninode'[key]].flow = key.flow
    BY <1>1, <1>2, <1>5 DEF ConninodeSound
  <2>2. CASE conninode'[key] \in DOMAIN inodeproc /\ Answer(inodeproc[conninode'[key]])
    <3>1. pc' = "idle" /\ owner' = inodeproc[conninode'[key]]
      BY <2>2 DEF Answer
    <3>2. \E j \in DOMAIN socket : socket[j].flow = key.flow /\ <<owner', j>> \in held
      BY <2>1, <2>2, <3>1, ProcessOfSocket DEF IInv
    <3>3. Types' /\ OwnerTookPart'
      BY <1>1, <1>2, <3>1, <3>2 DEF IInv, Types, OwnerTookPart, Living
    <3>4. QED
      BY <1>2, <1>3, <3>3 DEF IInv
  <2>3. CASE StartWalk("remapping")
    BY <1>1, <1>2, <1>3, <1>4, <1>5, <2>3 DEF IInv, Types, OwnerTookPart, StartWalk, Living
  <2>4. QED
    BY <1>5, <2>2, <2>3 DEF FindPID
<1>6. CASE Answer(NoPid)
  BY <1>1, <1>2, <1>3, <1>6 DEF IInv, Types, OwnerTookPart, Answer, Living
<1>7. QED
  BY <1>5, <1>6 DEF Refresh

LEMMA FindAgainStep == IInv /\ FindAgain => IInv'
<1> SUFFICES ASSUME IInv, FindAgain
             PROVE  IInv'
  OBVIOUS
<1>1. /\ pc = "remapping" /\ left = {} /\ link = NoInode /\ key' = key
      /\ UNCHANGED <<fds, socket, held, conninode, inodeproc, cursor, left, link>>
  BY DEF FindAgain, WalkIsOver, kernelVars, walkVars
<1> DEFINE inode == conninode[key]
<1>2. inode \in DOMAIN socket /\ socket[inode].flow = key.flow
  BY <1>1 DEF IInv, Types, ConninodeSound
<1>3. /\ pc' = "idle"
      /\ owner' = IF inode \in DOMAIN inodeproc THEN inodeproc[inode] ELSE NoPid
  BY DEF FindAgain, Answer
<1>4. HoldersKnown' /\ ConninodeSound' /\ InodeprocSound' /\ LinkSound'
  BY <1>1 DEF IInv, HoldersKnown, ConninodeSound, InodeprocSound, LinkSound, Living
<1>5. OwnerTookPart'
  <2>1. CASE inode \in DOMAIN inodeproc
    <3>1. \E j \in DOMAIN socket : socket[j].flow = key.flow /\ <<owner', j>> \in held
      BY <1>2, <1>3, <2>1, ProcessOfSocket DEF IInv
    <3>2. QED
      BY <1>1, <3>1 DEF OwnerTookPart
  <2>2. CASE inode \notin DOMAIN inodeproc
    BY <1>3, <2>2 DEF OwnerTookPart
  <2>3. QED
    BY <2>1, <2>2
<1>6. QED
  BY <1>1, <1>3, <1>4, <1>5 DEF IInv, Types, Living

\* A refresh between two packets.
LEMMA HandleUpdateStep == IInv /\ HandleUpdate => IInv'
<1> SUFFICES ASSUME IInv, HandleUpdate
             PROVE  IInv'
  OBVIOUS
<1>1. /\ pc = "idle" /\ RefreshConninode
      /\ UNCHANGED <<fds, socket, held, inodeproc, pc, key, cursor, left, link, owner>>
  BY DEF HandleUpdate, kernelVars, walkVars
<1>2. ConninodeSound' /\ DOMAIN conninode' \subseteq Keys
  BY <1>1, RefreshIsSound
<1>3. HoldersKnown' /\ InodeprocSound' /\ LinkSound' /\ OwnerTookPart'
  BY <1>1 DEF IInv, HoldersKnown, InodeprocSound, LinkSound, OwnerTookPart, Living
<1>4. Types'
  BY <1>1, <1>2 DEF IInv, Types, Living
<1>5. QED
  BY <1>2, <1>3, <1>4 DEF IInv

-----------------------------------------------------------------------------

LEMMA StutterStep == IInv /\ UNCHANGED vars => IInv'
BY DEF IInv, Types, HoldersKnown, ConninodeSound, InodeprocSound, LinkSound,
       OwnerTookPart, Living, vars, kernelVars, walkVars

LEMMA NextStep == IInv /\ [Next]_vars => IInv'
<1> SUFFICES ASSUME IInv, [Next]_vars
             PROVE  IInv'
  OBVIOUS
<1>1. CASE Kernel
  BY <1>1, KernelStep
<1>2. CASE Monitor
  BY <1>2, GetProcessStep, ReadDirStep, ReadLinkStep, SetNodeStep, RefreshStep,
     FindAgainStep, HandleUpdateStep DEF Monitor, Search
<1>3. CASE Ended \/ UNCHANGED vars
  BY <1>3, StutterStep DEF Ended
<1>4. QED
  BY <1>1, <1>2, <1>3 DEF Next

\* The inductive invariant holds in every reachable state.
THEOREM Invariance == Spec => []IInv
<1>1. QED
  BY InitHolds, NextStep, PTL DEF Spec

\* Whatever is read late or kept from before, no process is charged for a flow it
\* never had a socket of.
THEOREM OwnersTookPart == Spec => []OwnerTookPart
<1>1. IInv => OwnerTookPart
  BY DEF IInv
<1>2. QED
  BY <1>1, Invariance, PTL

-----------------------------------------------------------------------------
(* The right process: what the caches and the walk over /proc do not miss     *)

MoreTypes ==
  /\ cursor \in Int
  /\ Living \subseteq Pids
  /\ DOMAIN socket \subseteq Inodes
  /\ \A h \in held : h[1] \in Pids
  /\ timeWait \subseteq {socket[j] : j \in DOMAIN socket}

\* A key that is looked up in /proc/net/tcp has a row there, or one under a local
\* address, if its socket is still open.
KeyExplained ==
  pc = "mapping" => key.addr \in local_addrs \/ \E j \in DOMAIN socket : socket[j] = key

\* A socket is looked for only if a row was found.
RowFound == pc = "remapping" => ~Inverted(key, sent)

OnlyHolder(pid, i) == \A p \in Pids : <<p, i>> \in held => p = pid

\* The walk that looks for a socket has found it with the only process that ever
\* held it, if it has come past that process and the process still has it.
WalkCovers ==
  pc = "remapping" =>
    \A pid \in Living :
      LET i == conninode[key] IN
        i \in fds[pid] /\ OnlyHolder(pid, i) /\ pid <= cursor =>
          i \in DOMAIN inodeproc \/ (cursor = pid /\ (i \in left \/ link = i))

\* For a key a process was found for, both caches have an answer.
KnownFound ==
  \A k \in known :
    /\ k \in DOMAIN conninode
    /\ \E j \in DOMAIN inodeproc : j \in DOMAIN socket /\ socket[j].flow = k.flow

SInv == IInv /\ MoreTypes /\ KeyExplained /\ RowFound /\ WalkCovers /\ KnownFound

LEMMA InitHoldsToo == Init => SInv
<1> SUFFICES ASSUME Init
             PROVE  SInv
  OBVIOUS
<1>1. MoreTypes
  BY DEF Init, MoreTypes, Living
<1>2. KeyExplained /\ RowFound /\ WalkCovers /\ KnownFound
  BY DEF Init, KeyExplained, RowFound, WalkCovers, KnownFound
<1>3. QED
  BY <1>1, <1>2, InitHolds DEF SInv

\* A socket that existed and has one holder only was that process's before the step.
LEMMA KernelGivesNoOldSocket ==
  ASSUME Holders, MoreTypes, Kernel, NEW i \in DOMAIN socket,
         NEW pid \in Living', i \in fds'[pid], OnlyHolder(pid, i)'
  PROVE  pid \in Living /\ i \in fds[pid]
<1> USE DEF Holders, HoldersKnown, Living
<1>1. CASE \E p \in Pids, inode \in Inodes, k \in Keys : OpenSocket(p, inode, k)
  BY <1>1 DEF OpenSocket
<1>2. CASE \E p, child \in Pids : Fork(p, child)
  <2>1. PICK p \in Pids, child \in Pids : Fork(p, child)
    BY <1>2
  <2>2. /\ p \in DOMAIN fds /\ child \notin DOMAIN fds
        /\ fds' = With(fds, child, fds[p])
        /\ held' = held \cup {<<child, inode>> : inode \in fds[p]}
    BY <2>1 DEF Fork
  <2>3. /\ pid \in DOMAIN fds \cup {child}
        /\ fds'[pid] = IF pid = child THEN fds[p] ELSE fds[pid]
    BY <2>2 DEF With
  <2>4. CASE pid = child
    <3>1. <<p, i>> \in held'
      BY <2>2, <2>3, <2>4
    <3>2. p = pid
      BY <3>1 DEF OnlyHolder
    <3>3. QED
      BY <2>2, <2>4, <3>2
  <2>5. QED
    BY <2>3, <2>4
<1>3. CASE \E p \in Pids, inode \in Inodes : CloseSocket(p, inode)
  BY <1>3 DEF CloseSocket
<1>4. CASE \E p \in Pids : Exit(p)
  BY <1>4 DEF Exit
<1>5. CASE \E k \in Keys : TimeWaitEnds(k)
  BY <1>5 DEF TimeWaitEnds
<1>6. QED
  BY <1>1, <1>2, <1>3, <1>4, <1>5 DEF Kernel

LEMMA KernelTypes == Holders /\ MoreTypes /\ Kernel => MoreTypes'
<1> SUFFICES ASSUME Holders, MoreTypes, Kernel
             PROVE  MoreTypes'
  OBVIOUS
<1> cursor' = cursor
  BY DEF Kernel, walkVars
<1> USE DEF Holders, MoreTypes, Living
<1> DEFINE Sockets == {socket[j] : j \in DOMAIN socket}
<1>1. CASE \E pid \in Pids, inode \in Inodes, k \in Keys : OpenSocket(pid, inode, k)
  <2>1. PICK pid \in Pids, inode \in Inodes, k \in Keys : OpenSocket(pid, inode, k)
    BY <1>1
  <2>2. /\ DOMAIN socket' = DOMAIN socket \cup {inode}
        /\ \A j \in DOMAIN socket : socket'[j] = socket[j]
    BY <2>1 DEF OpenSocket, With
  <2>3. timeWait' \subseteq timeWait /\ DOMAIN fds' = DOMAIN fds
    BY <2>1 DEF OpenSocket
  <2>4. \A h \in held' : h[1] \in Pids
    BY <2>1 DEF OpenSocket
  <2>5. QED
    BY <2>2, <2>3, <2>4
<1>2. CASE \E pid, child \in Pids : Fork(pid, child)
  BY <1>2 DEF Fork, With
<1>3. Open \subseteq DOMAIN socket
  BY DEF Open
<1>4. Released /\ socket' = socket => timeWait' \subseteq Sockets
  BY <1>3 DEF Released
<1>5. CASE \E pid \in Pids, inode \in Inodes : CloseSocket(pid, inode)
  BY <1>4, <1>5 DEF CloseSocket
<1>6. CASE \E pid \in Pids : Exit(pid)
  BY <1>4, <1>6 DEF Exit
<1>7. CASE \E k \in Keys : TimeWaitEnds(k)
  BY <1>7 DEF TimeWaitEnds
<1>8. QED
  BY <1>1, <1>2, <1>5, <1>6, <1>7 DEF Kernel

LEMMA KernelStepToo == SInv /\ Kernel => SInv'
<1> SUFFICES ASSUME SInv, Kernel
             PROVE  SInv'
  OBVIOUS
<1>1. IInv' /\ Holders /\ MoreTypes'
  BY KernelStep, KernelTypes DEF SInv, IInv, Types, Holders
<1>2. Holders' /\ Grows
  BY <1>1, KernelGrows
<1>3. UNCHANGED <<conninode, inodeproc, pc, key, sent, cursor, left, link, known>>
  BY DEF Kernel, walkVars
<1>4. KeyExplained' /\ RowFound' /\ KnownFound'
  BY <1>2, <1>3 DEF SInv, KeyExplained, RowFound, KnownFound, Grows
<1>5. WalkCovers'
  <2> SUFFICES ASSUME pc = "remapping", NEW pid \in Living', NEW i, i = conninode[key],
                      i \in fds'[pid], OnlyHolder(pid, i)', pid <= cursor
               PROVE  i \in DOMAIN inodeproc \/ (cursor = pid /\ (i \in left \/ link = i))
    BY <1>3 DEF WalkCovers, OnlyHolder
  <2>1. i \in DOMAIN socket
    BY DEF SInv, IInv, Types, ConninodeSound
  <2>2. pid \in Living /\ i \in fds[pid]
    BY <1>1, <2>1, KernelGivesNoOldSocket DEF SInv
  <2>3. OnlyHolder(pid, i)
    BY <1>2 DEF OnlyHolder, Grows
  <2>4. QED
    BY <2>2, <2>3 DEF SInv, WalkCovers
<1>6. QED
  BY <1>1, <1>4, <1>5 DEF SInv

LEMMA MonitorTypes == MoreTypes /\ Monitor => MoreTypes'
<1> SUFFICES ASSUME MoreTypes, Monitor
             PROVE  MoreTypes'
  OBVIOUS
<1>1. UNCHANGED <<fds, socket, timeWait, held>>
  BY DEF Monitor, Search, GetProcess, ReadDir, ReadLink, SetNode, Refresh, FindAgain,
         HandleUpdate, kernelVars
<1>2. cursor' \in Int
  BY DEF MoreTypes, Monitor, Search, GetProcess, ReadDir, ReadLink, SetNode, Refresh,
         FindAgain, HandleUpdate, FindPID, Answer, StartWalk, walkVars, Pids
<1>3. QED
  BY <1>1, <1>2 DEF MoreTypes, Living

LEMMA GetProcessStepToo == SInv /\ (\E k \in Keys, out \in BOOLEAN : GetProcess(k, out)) => SInv'
<1> SUFFICES ASSUME SInv, NEW k \in Keys, NEW out \in BOOLEAN, GetProcess(k, out)
             PROVE  SInv'
  OBVIOUS
<1>1. /\ key' = k /\ sent' = out
      /\ UNCHANGED <<fds, socket, timeWait, held, conninode, inodeproc, left, link>>
  BY DEF GetProcess, kernelVars
<1>2. IInv' /\ MoreTypes'
  BY GetProcessStep, MonitorTypes DEF SInv, Monitor, Search
<1>3. k.addr \in local_addrs \/ \E j \in DOMAIN socket : socket[j] = k
  <2>1. PICK c \in {socket[i] : i \in Open} \cup timeWait : c = k \/ k.addr \in local_addrs
    BY DEF GetProcess, PacketOf
  <2>2. Open \subseteq DOMAIN socket
    BY DEF SInv, IInv, Types, Open
  <2>3. QED
    BY <2>1, <2>2 DEF SInv, MoreTypes
<1>4. CASE ~Inverted(k, out) /\ k \in DOMAIN conninode /\ FindPID(conninode[k])
  <2>1. conninode[k] \in DOMAIN socket /\ socket[conninode[k]].flow = k.flow
    BY <1>4 DEF SInv, IInv, ConninodeSound
  <2>2. CASE conninode[k] \in DOMAIN inodeproc /\ Answer(inodeproc[conninode[k]])
    <3>1. pc' = "idle" /\ known' \subseteq known \cup {k}
      BY <1>1, <2>2 DEF Answer
    <3>2. KnownFound'
      BY <1>1, <1>4, <2>1, <2>2, <3>1 DEF SInv, KnownFound
    <3>3. QED
      BY <1>2, <3>1, <3>2 DEF SInv, KeyExplained, RowFound, WalkCovers
  <2>3. CASE StartWalk("remapping")
    <3>1. pc' = "remapping" /\ cursor' = 0 /\ known' = known
      BY <2>3 DEF StartWalk
    <3>2. WalkCovers'
      BY <1>1, <3>1, SocketAssumption DEF SInv, MoreTypes, WalkCovers, Living, Pids
    <3>3. QED
      BY <1>1, <1>2, <1>4, <3>1, <3>2 DEF SInv, KeyExplained, RowFound, KnownFound
  <2>4. QED
    BY <1>4, <2>2, <2>3 DEF FindPID
<1>5. CASE StartWalk("mapping")
  <2>1. pc' = "mapping" /\ known' = known
    BY <1>5 DEF StartWalk
  <2>2. QED
    BY <1>1, <1>2, <1>3, <2>1 DEF SInv, KeyExplained, RowFound, WalkCovers, KnownFound
<1>6. QED
  BY <1>4, <1>5 DEF GetProcess

\* The walk comes to the next process: none that lives is passed over.
LEMMA ReadDirStepToo == SInv /\ (\E pid \in Pids : ReadDir(pid)) => SInv'
<1> SUFFICES ASSUME SInv, NEW p \in Pids, ReadDir(p)
             PROVE  SInv'
  OBVIOUS
<1>1. /\ left = {} /\ link = NoInode
      /\ p > cursor /\ cursor' = p /\ left' = fds[p]
      /\ \A q \in Living : q > cursor => p <= q
      /\ UNCHANGED <<fds, socket, timeWait, held, conninode, inodeproc, pc, key, sent, link, known>>
  BY DEF ReadDir, kernelVars
<1>2. IInv' /\ MoreTypes'
  BY ReadDirStep, MonitorTypes DEF SInv, Monitor
<1>3. KeyExplained' /\ RowFound' /\ KnownFound'
  BY <1>1 DEF SInv, KeyExplained, RowFound, KnownFound
<1>4. WalkCovers'
  <2> SUFFICES ASSUME pc = "remapping", NEW pid \in Living, NEW i, i = conninode[key],
                      i \in fds[pid], OnlyHolder(pid, i), pid <= p
               PROVE  i \in DOMAIN inodeproc \/ (p = pid /\ (i \in fds[p] \/ link = i))
    BY <1>1 DEF WalkCovers, OnlyHolder, Living
  <2>1. CASE pid = p
    BY <2>1
  <2>2. CASE pid # p
    <3>1. ~(pid > cursor)
      BY <1>1, <2>2 DEF SInv, MoreTypes, Pids
    <3>2. cursor \in Int
      BY DEF SInv, MoreTypes
    <3>3. pid <= cursor
      BY <3>1, <3>2 DEF SInv, MoreTypes, Pids
    <3>4. i \in Inodes
      BY DEF SInv, IInv, Types, MoreTypes, Living
    <3>5. link # i
      BY <1>1, <3>4 DEF NoInode, Inodes
    <3>6. QED
      BY <1>1, <3>3, <3>5 DEF SInv, WalkCovers
  <2>3. QED
    BY <2>1, <2>2
<1>5. QED
  BY <1>2, <1>3, <1>4 DEF SInv

LEMMA ReadLinkStepToo == SInv /\ (\E inode \in Inodes : ReadLink(inode)) => SInv'
<1> SUFFICES ASSUME SInv, NEW inode \in Inodes, ReadLink(inode)
             PROVE  SInv'
  OBVIOUS
<1>1. /\ link = NoInode /\ left' = left \ {inode}
      /\ link' = IF /\ cursor \in Living /\ inode \in fds[cursor]
                    /\ ~(inode \in DOMAIN inodeproc /\ inodeproc[inode] = cursor)
                 THEN inode ELSE NoInode
      /\ UNCHANGED <<fds, socket, timeWait, held, conninode, inodeproc, pc, key, sent,
                  cursor, known>>
  BY DEF ReadLink, kernelVars
<1>2. IInv' /\ MoreTypes'
  BY ReadLinkStep, MonitorTypes DEF SInv, Monitor
<1>3. KeyExplained' /\ RowFound' /\ KnownFound'
  BY <1>1 DEF SInv, KeyExplained, RowFound, KnownFound
<1>4. WalkCovers'
  <2> SUFFICES ASSUME pc = "remapping", NEW pid \in Living, NEW i, i = conninode[key],
                      i \in fds[pid], OnlyHolder(pid, i), pid <= cursor
               PROVE  i \in DOMAIN inodeproc \/ (cursor = pid /\ (i \in left' \/ link' = i))
    BY <1>1 DEF WalkCovers, OnlyHolder, Living
  <2>1. i \in Inodes
    BY DEF SInv, IInv, Types, MoreTypes, Living
  <2>2. link # i
    BY <1>1, <2>1 DEF NoInode, Inodes
  <2>3. i \in DOMAIN inodeproc \/ (cursor = pid /\ i \in left)
    BY <2>2 DEF SInv, WalkCovers
  <2>4. QED
    BY <1>1, <2>3
<1>5. QED
  BY <1>2, <1>3, <1>4 DEF SInv

LEMMA SetNodeStepToo == SInv /\ SetNode => SInv'
<1> SUFFICES ASSUME SInv, SetNode
             PROVE  SInv'
  OBVIOUS
<1>1. UNCHANGED <<fds, socket, timeWait, held, conninode, key, sent, cursor, left, known>>
  BY DEF SetNode, kernelVars
<1>2. IInv' /\ MoreTypes'
  BY SetNodeStep, MonitorTypes DEF SInv, Monitor
<1>3. CASE inodeproc' = With(inodeproc, link, cursor) /\ link' = NoInode /\ pc' = pc
  <2>1. DOMAIN inodeproc' = DOMAIN inodeproc \cup {link}
    BY <1>3 DEF With
  <2>2. KeyExplained' /\ RowFound' /\ KnownFound'
    BY <1>1, <1>3, <2>1 DEF SInv, KeyExplained, RowFound, KnownFound
  <2>3. WalkCovers'
    BY <1>1, <1>3, <2>1 DEF SInv, WalkCovers, OnlyHolder, Living
  <2>4. QED
    BY <1>2, <2>2, <2>3 DEF SInv
<1>4. CASE pc' = "exited" /\ inodeproc' = inodeproc
  BY <1>1, <1>2, <1>4 DEF SInv, KeyExplained, RowFound, WalkCovers, KnownFound
<1>5. QED
  BY <1>3, <1>4 DEF SetNode

LEMMA RefreshStepToo == SInv /\ Refresh => SInv'
<1> SUFFICES ASSUME SInv, Refresh
             PROVE  SInv'
  OBVIOUS
<1>1. /\ key' = key /\ sent' = sent /\ RefreshConninode
      /\ UNCHANGED <<fds, socket, timeWait, held, inodeproc, left, link>>
  BY DEF Refresh, kernelVars
<1>2. IInv' /\ MoreTypes'
  BY RefreshStep, MonitorTypes DEF SInv, Monitor, Search
<1>3. DOMAIN conninode \subseteq DOMAIN conninode'
  BY <1>1 DEF RefreshConninode, Kept
<1>4. known' = known => KnownFound'
  BY <1>1, <1>3 DEF SInv, KnownFound
<1>5. CASE ~Inverted(key, sent) /\ key \in DOMAIN conninode' /\ FindPID(conninode'[key])
  <2>1. conninode'[key] \in DOMAIN socket /\ socket[conninode'[key]].flow = key.flow
    BY <1>1, <1>2, <1>5 DEF IInv, ConninodeSound
  <2>2. CASE conninode'[key] \in DOMAIN inodeproc /\ Answer(inodeproc[conninode'[key]])
    <3>1. pc' = "idle" /\ known' \subseteq known \cup {key}
      BY <1>1, <2>2 DEF Answer
    <3>2. KnownFound'
      BY <1>1, <1>3, <1>5, <2>1, <2>2, <3>1 DEF SInv, KnownFound
    <3>3. QED
      BY <1>2, <3>1, <3>2 DEF SInv, KeyExplained, RowFound, WalkCovers
  <2>3. CASE StartWalk("remapping")
    <3>1. pc' = "remapping" /\ cursor' = 0 /\ known' = known
      BY <2>3 DEF StartWalk
    <3>2. WalkCovers'
      BY <1>1, <3>1, SocketAssumption DEF SInv, MoreTypes, WalkCovers, Living, Pids
    <3>3. QED
      BY <1>1, <1>2, <1>4, <1>5, <3>1, <3>2 DEF SInv, KeyExplained, RowFound
  <2>4. QED
    BY <1>5, <2>2, <2>3 DEF FindPID
<1>6. CASE Answer(NoPid)
  BY <1>2, <1>4, <1>6 DEF SInv, KeyExplained, RowFound, WalkCovers, Answer
<1>7. QED
  BY <1>5, <1>6 DEF Refresh

LEMMA FindAgainStepToo == SInv /\ FindAgain => SInv'
<1> SUFFICES ASSUME SInv, FindAgain
             PROVE  SInv'
  OBVIOUS
<1>1. /\ pc = "remapping" /\ pc' = "idle" /\ key' = key
      /\ UNCHANGED <<fds, socket, timeWait, held, conninode, inodeproc>>
  BY DEF FindAgain, kernelVars, Answer
<1>2. IInv' /\ MoreTypes'
  BY FindAgainStep, MonitorTypes DEF SInv, Monitor, Search
<1> DEFINE inode == conninode[key]
<1>3. /\ key \in DOMAIN conninode
      /\ inode \in DOMAIN socket /\ socket[inode].flow = key.flow
  BY <1>1 DEF SInv, IInv, Types, ConninodeSound
<1>4. KnownFound'
  <2>1. CASE inode \in DOMAIN inodeproc
    <3>1. known' \subseteq known \cup {key}
      BY <1>1 DEF FindAgain, Answer
    <3>2. QED
      BY <1>1, <1>3, <2>1, <3>1 DEF SInv, KnownFound
  <2>2. CASE inode \notin DOMAIN inodeproc
    <3>1. known' = known
      BY <2>2 DEF FindAgain, Answer
    <3>2. QED
      BY <1>1, <3>1 DEF SInv, KnownFound
  <2>3. QED
    BY <2>1, <2>2
<1>5. QED
  BY <1>1, <1>2, <1>4 DEF SInv, KeyExplained, RowFound, WalkCovers

LEMMA HandleUpdateStepToo == SInv /\ HandleUpdate => SInv'
<1> SUFFICES ASSUME SInv, HandleUpdate
             PROVE  SInv'
  OBVIOUS
<1>1. /\ pc = "idle" /\ RefreshConninode
      /\ UNCHANGED <<socket, inodeproc, pc, known>>
  BY DEF HandleUpdate, kernelVars
<1>2. IInv' /\ MoreTypes'
  BY HandleUpdateStep, MonitorTypes DEF SInv, Monitor
<1>3. DOMAIN conninode \subseteq DOMAIN conninode'
  BY <1>1 DEF RefreshConninode, Kept
<1>4. KnownFound'
  BY <1>1, <1>3 DEF SInv, KnownFound
<1>5. QED
  BY <1>1, <1>2, <1>4 DEF SInv, KeyExplained, RowFound, WalkCovers

LEMMA NextStepToo == SInv /\ [Next]_vars => SInv'
<1> SUFFICES ASSUME SInv, [Next]_vars
             PROVE  SInv'
  OBVIOUS
<1>1. CASE Kernel
  BY <1>1, KernelStepToo
<1>2. CASE Monitor
  BY <1>2, GetProcessStepToo, ReadDirStepToo, ReadLinkStepToo, SetNodeStepToo,
     RefreshStepToo, FindAgainStepToo, HandleUpdateStepToo DEF Monitor, Search
<1>3. CASE Ended \/ UNCHANGED vars
  <2>1. IInv' /\ UNCHANGED vars
    BY <1>3, StutterStep DEF SInv, Ended
  <2>2. QED
    BY <2>1 DEF SInv, MoreTypes, KeyExplained, RowFound, WalkCovers, KnownFound, OnlyHolder,
                Living, vars, kernelVars, walkVars
<1>4. QED
  BY <1>1, <1>2, <1>3 DEF Next

\* The inductive invariant of the two theorems below.
THEOREM SearchInvariance == Spec => []SInv
<1>1. QED
  BY InitHoldsToo, NextStepToo, PTL DEF Spec

-----------------------------------------------------------------------------
(* The answers                                                             *)

\* The four ways an answer is given: from the two caches, or none because the hash
\* string is no row's, or the connection has no row, or the walk has not met the socket.
LEMMA Answers ==
  ASSUME SInv, Search, pc' = "idle"
  PROVE  \/ /\ ~Inverted(key', sent')
            /\ key' \in DOMAIN conninode'
            /\ conninode'[key'] \in DOMAIN inodeproc
            /\ owner' = inodeproc[conninode'[key']]
         \/ Refresh /\ Inverted(key, sent) /\ owner' = NoPid
         \/ Refresh /\ ~Inverted(key, sent) /\ key' \notin DOMAIN conninode'
         \/ FindAgain /\ ~Inverted(key, sent) /\ conninode[key] \notin DOMAIN inodeproc
<1>1. ASSUME NEW inode, FindPID(inode)
      PROVE  inode \in DOMAIN inodeproc /\ owner' = inodeproc[inode]
  BY <1>1 DEF FindPID, StartWalk, Answer
<1>2. CASE \E k \in Keys, out \in BOOLEAN : GetProcess(k, out)
  BY <1>1, <1>2 DEF GetProcess, StartWalk
<1>3. CASE Refresh
  BY <1>1, <1>3 DEF Refresh, Answer
<1>4. CASE FindAgain
  BY <1>4 DEF FindAgain, Answer, SInv, IInv, Types, RowFound
<1>5. QED
  BY <1>2, <1>3, <1>4 DEF Search

\* What the caches answer for a flow of one socket and one process is right.
LEMMA CachesAreRight ==
  ASSUME SInv, Search, NEW i \in DOMAIN socket, NEW pid, Sole(key'.flow, i, pid),
         key' \in DOMAIN conninode', conninode'[key'] \in DOMAIN inodeproc
  PROVE  inodeproc[conninode'[key']] = pid
<1>1. ConninodeSound' /\ UNCHANGED socket
  BY GetProcessStepToo, RefreshStepToo, FindAgainStepToo
  DEF Search, SInv, IInv, GetProcess, Refresh, FindAgain, kernelVars
<1>2. conninode'[key'] = i
  BY <1>1 DEF ConninodeSound, Sole
<1>3. <<inodeproc[i], i>> \in held
  BY <1>2 DEF SInv, IInv, InodeprocSound
<1>4. inodeproc[i] \in Pids
  BY <1>3 DEF SInv, MoreTypes
<1>5. QED
  BY <1>2, <1>3, <1>4 DEF Sole

LEMMA RightAnswer ==
  ASSUME SInv, Search, pc' = "idle", NEW i \in DOMAIN socket, NEW pid \in Living,
         Sole(key'.flow, i, pid), i \in fds[pid]
  PROVE  owner' = IF Inverted(key', sent') THEN NoPid ELSE pid
<1>1. CASE Refresh /\ ~Inverted(key, sent) /\ key' \notin DOMAIN conninode'
  <2>1. pc = "mapping" /\ key' = key /\ RefreshConninode
    BY <1>1 DEF Refresh
  <2>2. i \in Rows(key.flow)
    BY <2>1 DEF Rows, Open, Sole
  <2>3. key \in Keys
    BY <2>1 DEF SInv, IInv, Types
  <2>4. key.addr \in local_addrs \/ key.addr = socket[i].addr
    BY <2>1 DEF SInv, KeyExplained, Sole
  <2>5. key \in Entered
    BY <2>2, <2>3, <2>4 DEF Entered
  <2>6. QED
    BY <1>1, <2>1, <2>5 DEF RefreshConninode
<1>2. CASE FindAgain /\ ~Inverted(key, sent) /\ conninode[key] \notin DOMAIN inodeproc
  <2>1. pc = "remapping" /\ key' = key /\ WalkIsOver
    BY <1>2 DEF FindAgain
  <2>2. conninode[key] = i
    BY <2>1 DEF SInv, IInv, Types, ConninodeSound, Sole
  <2>3. OnlyHolder(pid, i)
    BY DEF OnlyHolder, Sole
  <2>4. i \in Inodes
    BY DEF SInv, MoreTypes
  <2>5. link # i
    BY <2>1, <2>4 DEF WalkIsOver, NoInode, Inodes
  <2>6. QED
    BY <1>2, <2>1, <2>2, <2>3, <2>5 DEF SInv, WalkCovers, WalkIsOver
<1>3. CASE Refresh /\ Inverted(key, sent) /\ owner' = NoPid
  <2>1. key' = key /\ sent' = sent
    BY <1>3 DEF Refresh
  <2>2. QED
    BY <1>3, <2>1
<1>4. QED
  BY <1>1, <1>2, <1>3, Answers, CachesAreRight

LEMMA LateAnswer ==
  ASSUME SInv, Search, pc' = "idle", NEW i \in DOMAIN socket, NEW pid \in Pids,
         Sole(key'.flow, i, pid), key' \in known
  PROVE  owner' = IF Inverted(key', sent') THEN NoPid ELSE pid
<1>1. key' \in DOMAIN conninode /\ i \in DOMAIN inodeproc
  BY DEF SInv, KnownFound, Sole
<1>2. ~(Refresh /\ key' \notin DOMAIN conninode')
  BY <1>1 DEF Refresh, RefreshConninode, Kept
<1>3. ~(FindAgain /\ conninode[key] \notin DOMAIN inodeproc)
  <2>1. SUFFICES ASSUME FindAgain
                 PROVE  conninode[key] \in DOMAIN inodeproc
    OBVIOUS
  <2>2. key' = key
    BY <2>1 DEF FindAgain
  <2>3. conninode[key] = i
    BY <1>1, <2>2 DEF SInv, IInv, ConninodeSound, Sole
  <2>4. QED
    BY <1>1, <2>3
<1>4. CASE Refresh /\ Inverted(key, sent) /\ owner' = NoPid
  <2>1. key' = key /\ sent' = sent
    BY <1>4 DEF Refresh
  <2>2. QED
    BY <1>4, <2>1
<1>5. QED
  BY <1>2, <1>3, <1>4, Answers, CachesAreRight

\* A connection of one socket and one process is counted for that process while it
\* keeps the socket open: neither the caches nor the order of the walk miss it.  The
\* one exception is a first packet sent from an address that is not in local_addrs,
\* which is looked up the wrong way round and finds nobody.
THEOREM OwnerIsRight == Spec => RightOwner
<1>1. SInv /\ [Next]_vars =>
        [Search /\ pc' = "idle" =>
           \A i \in DOMAIN socket, pid \in Living :
             Sole(key'.flow, i, pid) /\ i \in fds[pid] =>
               owner' = IF sent' /\ key'.addr \notin local_addrs THEN NoPid ELSE pid]_vars
  BY RightAnswer DEF Inverted
<1>2. QED
  BY <1>1, SearchInvariance, PTL DEF Spec, RightOwner

\* Packets that come after such a connection was closed are counted for the process
\* that was found while it was open, with the same exception.
THEOREM LatePacketsAreCounted == Spec => LatePacketsFindOwner
<1>1. SInv /\ [Next]_vars =>
        [Search /\ pc' = "idle" =>
           \A i \in DOMAIN socket, pid \in Pids :
             Sole(key'.flow, i, pid) /\ key' \in known =>
               owner' = IF sent' /\ key'.addr \notin local_addrs THEN NoPid ELSE pid]_vars
  BY LateAnswer DEF Inverted
<1>2. QED
  BY <1>1, SearchInvariance, PTL DEF Spec, LatePacketsFindOwner
=============================================================================
