---------------------------- MODULE SocketOwner ----------------------------
(***************************************************************************)
(* Whose traffic a packet is: getProcess of the bundled nethogs library      *)
(* (src/nethogs/src/process.cpp), with its caches of /proc/net/tcp            *)
(* (conninode.cpp) and of /proc/<pid>/fd (inode2prog.cpp).                    *)
(*                                                                         *)
(* The kernel is external: processes open, inherit and close sockets, and end, *)
(* while the monitor thread walks /proc one process and one descriptor at a    *)
(* time.  /proc/net/tcp is read in one step.  An inode number is given once;    *)
(* process ids and addresses are used again.  A flow is a local port with a     *)
(* remote address and port; with a local address it is the key of a connection. *)
(* The remote end is another machine.                                        *)
(***************************************************************************)
EXTENDS Integers

CONSTANTS
  MaxPid,     \* process ids are 1..MaxPid
  MaxInode,   \* bound on the sockets opened
  Flows,
  Addrs,      \* addresses of this machine
  local_addrs,\* those found on the devices when the program started
  None

NoPid == 0
NoInode == 0
Pids == 1..MaxPid
Inodes == 1..MaxInode
Keys == [addr : Addrs, flow : Flows]

ASSUME SocketAssumption ==
  /\ MaxPid \in Nat
  /\ MaxInode \in Nat
  /\ local_addrs \subseteq Addrs

VARIABLES
  fds,        \* living pid -> inodes of its sockets
  socket,     \* inode given so far -> key of its connection
  timeWait,   \* keys the kernel lists with inode 0
  held,       \* <<pid, inode>> such that pid has held inode
  conninode,  \* key -> inode
  inodeproc,  \* inode -> pid
  pc,         \* where getProcess is
  key,        \* the connection it is about
  sent,       \* the packet it is called for was sent, not received
  cursor,     \* the last process of the walk over /proc
  left,       \* descriptors of that process not looked at yet
  link,       \* the socket whose link was read, while it is entered
  owner,      \* the pid found for the last connection, NoPid if there was none
  known       \* keys for which a pid was found

kernelVars == <<fds, socket, timeWait, held>>
walkVars == <<cursor, left, link>>
vars == <<kernelVars, conninode, inodeproc, pc, key, sent, walkVars, owner, known>>

With(f, x, y) == [z \in DOMAIN f \cup {x} |-> IF z = x THEN y ELSE f[z]]

Init ==
  /\ fds = [pid \in Pids |-> {}]
  /\ socket = << >>
  /\ timeWait = {}
  /\ held = {}
  /\ conninode = << >>
  /\ inodeproc = << >>
  /\ pc = "idle"
  /\ key = None
  /\ sent = FALSE
  /\ cursor = 0
  /\ left = {}
  /\ link = NoInode
  /\ owner = NoPid
  /\ known = {}

-----------------------------------------------------------------------------
(* The kernel                                                              *)

Living == DOMAIN fds

Open == UNION {fds[pid] : pid \in Living}

\* A process connects, or accepts a connection; a key in TIME_WAIT may be used.
OpenSocket(pid, inode, k) ==
  /\ inode \notin DOMAIN socket
  /\ 1..(inode - 1) \subseteq DOMAIN socket
  /\ pid \in Living
  /\ k \notin {socket[i] : i \in Open}
  /\ fds' = [fds EXCEPT ![pid] = @ \cup {inode}]
  /\ socket' = With(socket, inode, k)
  /\ timeWait' = timeWait \ {k}
  /\ held' = held \cup {<<pid, inode>>}

\* fork: the child has the sockets of its parent.
Fork(pid, child) ==
  /\ pid \in Living
  /\ child \in Pids \ Living
  /\ fds' = With(fds, child, fds[pid])
  /\ held' = held \cup {<<child, inode>> : inode \in fds[pid]}
  /\ UNCHANGED <<socket, timeWait>>

\* Sockets nobody has any more leave the table, or stay in TIME_WAIT.
Released ==
  LET closed == {socket[i] : i \in Open \ Open'} IN
    \/ timeWait' = timeWait \cup closed
    \/ closed # {} /\ UNCHANGED timeWait

CloseSocket(pid, inode) ==
  /\ pid \in Living
  /\ inode \in fds[pid]
  /\ fds' = [fds EXCEPT ![pid] = @ \ {inode}]
  /\ Released
  /\ UNCHANGED <<socket, held>>

\* Any process but init ends.
Exit(pid) ==
  /\ pid \in Living \ {1}
  /\ fds' = [p \in Living \ {pid} |-> fds[p]]
  /\ Released
  /\ UNCHANGED <<socket, held>>

TimeWaitEnds(k) ==
  /\ k \in timeWait
  /\ timeWait' = timeWait \ {k}
  /\ UNCHANGED <<fds, socket, held>>

Kernel ==
  /\ \/ \E pid \in Pids, inode \in Inodes, k \in Keys : OpenSocket(pid, inode, k)
     \/ \E pid, child \in Pids : Fork(pid, child)
     \/ \E pid \in Pids, inode \in Inodes : CloseSocket(pid, inode)
     \/ \E pid \in Pids : Exit(pid)
     \/ \E k \in Keys : TimeWaitEnds(k)
  /\ pc # "exited"
  /\ UNCHANGED <<conninode, inodeproc, pc, key, sent, walkVars, owner, known>>

-----------------------------------------------------------------------------
(* getProcess                                                              *)

\* The process of a connection was found, or none.
Answer(pid) ==
  /\ pc' = "idle"
  /\ owner' = pid
  /\ known' = IF pid = NoPid THEN known ELSE known \cup {key'}

\* opendir of /proc.
StartWalk(for) ==
  /\ pc' = for
  /\ cursor' = 0
  /\ UNCHANGED <<owner, known>>

\* Mutant of FindPID: /proc is not read again.
FindPIDCached(inode) ==
  /\ Answer(IF inode \in DOMAIN inodeproc THEN inodeproc[inode] ELSE NoPid)
  /\ UNCHANGED cursor

\* findPID looks in inodeproc first, and walks over /proc if it is not there.
FindPID(inode) ==
  \/ /\ inode \in DOMAIN inodeproc
     /\ Answer(inodeproc[inode])
     /\ UNCHANGED cursor
  \/ /\ inode \notin DOMAIN inodeproc
     /\ StartWalk("remapping")

\* A packet of no known connection.  It may come from another local address than
\* that of its socket.
PacketOf(k) ==
  \E c \in {socket[i] : i \in Open} \cup timeWait :
    c.flow = k.flow /\ (c = k \/ k.addr \in local_addrs)

\* Packet::Outgoing takes a packet as incoming, and the Connection inverts it for a
\* reference packet, unless its source is one of local_addrs.  The hash string of a
\* packet sent from another address has the remote end first then, as no row has.
Inverted(k, out) == out /\ k.addr \notin local_addrs

\* The process is looked up under the hash string of the reference packet.
GetProcess(k, out) ==
  /\ pc = "idle"
  /\ PacketOf(k)
  /\ key' = k
  /\ sent' = out
  /\ \/ ~Inverted(k, out) /\ k \in DOMAIN conninode /\ FindPID(conninode[k])
     \/ (Inverted(k, out) \/ k \notin DOMAIN conninode) /\ StartWalk("mapping")
  /\ UNCHANGED <<kernelVars, conninode, inodeproc, left, link>>

\* reread_mapping comes to the next process, and get_info_for_pid lists its
\* descriptors.
ReadDir(pid) ==
  /\ pc \in {"mapping", "remapping"}
  /\ left = {} /\ link = NoInode
  /\ pid \in Living
  /\ pid > cursor
  /\ \A p \in Living : p > cursor => pid <= p
  /\ cursor' = pid
  /\ left' = fds[pid]
  /\ UNCHANGED <<kernelVars, conninode, inodeproc, pc, key, sent, link, owner, known>>

\* readlink of a descriptor, which may be closed by now; setnode has nothing to do
\* if it knows the socket as this process's.
ReadLink(inode) ==
  /\ inode \in left
  /\ link = NoInode
  /\ left' = left \ {inode}
  /\ link' = IF /\ cursor \in Living /\ inode \in fds[cursor]
                /\ ~(inode \in DOMAIN inodeproc /\ inodeproc[inode] = cursor)
             THEN inode ELSE NoInode
  /\ UNCHANGED <<kernelVars, conninode, inodeproc, pc, key, sent, cursor, owner, known>>

\* setnode: the socket is this process's, if its command line can be read.  If not,
\* read_file ends the program.
SetNode ==
  /\ link # NoInode
  /\ \/ /\ cursor \in Living
        /\ inodeproc' = With(inodeproc, link, cursor)
        /\ link' = NoInode
        /\ UNCHANGED pc
     \/ /\ cursor \notin Living
        /\ pc' = "exited"
        /\ UNCHANGED <<inodeproc, link>>
  /\ UNCHANGED <<kernelVars, conninode, key, sent, cursor, left, owner, known>>

WalkIsOver ==
  /\ left = {} /\ link = NoInode
  /\ \A pid \in Living : pid <= cursor

\* Mutant of Rows: the remote end is left out of the key.
RowsOfAll(flow) == Open

\* The rows of /proc/net/tcp with an inode.
Rows(flow) == {i \in Open : socket[i].flow = flow}

\* Mutant of Kept: the map is made anew, as in the lines commented out.
KeptNone == {}

\* "we don't forget old mappings, just overwrite"
Kept == DOMAIN conninode

\* addtoconninode enters a row under its own address and under all local_addrs.
Entered ==
  {k \in Keys : \E i \in Rows(k.flow) : k.addr = socket[i].addr \/ k.addr \in local_addrs}

\* refreshconninode; of rows entered under the same key the last one stays.
RefreshConninode ==
  \E last \in [Flows -> Open \cup {NoInode}] :
    /\ \A f \in Flows : Rows(f) # {} => last[f] \in Rows(f)
    /\ conninode' =
         [k \in Kept \cup Entered |->
            IF k \notin Entered THEN conninode[k]
            ELSE IF k.addr \in local_addrs THEN last[k.flow]
            ELSE CHOOSE i \in Rows(k.flow) : socket[i].addr = k.addr]

\* getProcess after the walk: the other table is read, and the connection looked
\* up in both again.
Refresh ==
  /\ pc = "mapping"
  /\ WalkIsOver
  /\ UNCHANGED <<key, sent>>
  /\ RefreshConninode
  /\ \/ ~Inverted(key, sent) /\ key \in DOMAIN conninode' /\ FindPID(conninode'[key])
     \/ /\ Inverted(key, sent) \/ key \notin DOMAIN conninode'
        /\ Answer(NoPid)
        /\ UNCHANGED cursor
  /\ UNCHANGED <<kernelVars, inodeproc, left, link>>

\* findPID after the walk.
FindAgain ==
  /\ pc = "remapping"
  /\ WalkIsOver
  /\ UNCHANGED <<key, sent>>
  /\ LET inode == conninode[key] IN
       Answer(IF inode \in DOMAIN inodeproc THEN inodeproc[inode] ELSE NoPid)
  /\ UNCHANGED <<kernelVars, conninode, inodeproc, walkVars>>

\* nethogsmonitor_handle_update reads /proc/net/tcp at each refresh, between packets;
\* what else it does is NethogsMonitor's.
HandleUpdate ==
  /\ pc = "idle"
  /\ RefreshConninode
  /\ UNCHANGED <<kernelVars, inodeproc, pc, key, sent, walkVars, owner, known>>

\* The steps that may end getProcess.
Search ==
  \/ \E k \in Keys, out \in BOOLEAN : GetProcess(k, out)
  \/ Refresh
  \/ FindAgain

Monitor ==
  \/ Search
  \/ \E pid \in Pids : ReadDir(pid)
  \/ \E inode \in Inodes : ReadLink(inode)
  \/ SetNode
  \/ HandleUpdate

\* The program has ended.
Ended == pc = "exited" /\ UNCHANGED vars

Next == Kernel \/ Monitor \/ Ended

Spec == Init /\ [][Next]_vars

-----------------------------------------------------------------------------
(* Properties *)

\* The process a connection is counted for has at some time had a connection of
\* the same flow: whatever is read late or kept from before, no process is charged
\* with what it never took part in.
OwnerTookPart ==
  pc = "idle" /\ owner # NoPid =>
    \E i \in DOMAIN socket : socket[i].flow = key.flow /\ <<owner, i>> \in held

\* The one socket there has been of a flow, and the one process that had it.
Sole(flow, i, pid) ==
  /\ {j \in DOMAIN socket : socket[j].flow = flow} = {i}
  /\ {p \in Pids : <<p, i>> \in held} = {pid}

\* A connection whose flow and socket were never another's is counted for its
\* process, if the process keeps the socket open until the answer, whichever of
\* the caches knew what before; except that nobody is found, ever, if its first
\* packet was sent from an address the devices did not have at the start.
RightOwner ==
  [][Search /\ pc' = "idle" =>
       \A i \in DOMAIN socket, pid \in Living :
         Sole(key'.flow, i, pid) /\ i \in fds[pid] =>
           owner' = IF sent' /\ key'.addr \notin local_addrs THEN NoPid ELSE pid]_vars

\* "We rely on the old data still in the table": packets that come after such a
\* connection was closed are counted for the process found before, with the same
\* exception.
LatePacketsFindOwner ==
  [][Search /\ pc' = "idle" =>
       \A i \in DOMAIN socket, pid \in Pids :
         Sole(key'.flow, i, pid) /\ key' \in known =>
           owner' = IF sent' /\ key'.addr \notin local_addrs THEN NoPid ELSE pid]_vars
=============================================================================
