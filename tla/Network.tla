------------------------------ MODULE Network -------------------------------
(***************************************************************************)
(* The networking layer (src/networking): nodes whose programs read and    *)
(* write channels, a channel being a ZeroMQ REQ socket at its reader and a *)
(* REP socket at its writer.  Each node keeps its sockets in a pool, an    *)
(* array of cells that is searched by descriptor and grows by Granularity. *)
(* A read posts a request that carries its length and waits; a write waits *)
(* for the request and replies with no more than was asked for.            *)
(*                                                                         *)
(* A node runs one of its Programs: a sequence of sets of calls, each step *)
(* making one call of the set.  The programs of the distributed sort make  *)
(* one call a step, those that drive the pool choose.                      *)
(***************************************************************************)
EXTENDS Integers, Sequences

CONSTANTS
  Nodes,         \* the ZeroVM processes
  Ends,          \* the endpoints: one channel each
  Records,       \* per node, its rows of the channels table, in their order
  Programs,      \* the programs the nodes may run together
  Granularity,   \* ESOCKF_ARRAY_GRANULARITY
  MaxSize        \* bound: the longest transfer of a program

None == -1       \* nothing in flight
Junk == -1       \* the fs_fd of a cell that realloc added and nobody set

Rows(n) == {Records[n][i] : i \in DOMAIN Records[n]}

Calls ==
  [op : {"init", "pool", "open", "close", "read", "write", "term"},
   fd : Int, size : 0 .. MaxSize, exact : BOOLEAN]

\* A descriptor names one channel of a node; a channel has one reader and
\* one writer.
ASSUME NetworkAssumption ==
  /\ Granularity \in Nat \ {0}
  /\ MaxSize \in Nat
  /\ \A n \in Nodes : Records[n] \in Seq([fd : Nat, fmode : {"r", "w"}, endpoint : Ends])
  /\ \A n \in Nodes : \A i, j \in DOMAIN Records[n] :
       Records[n][i].fd = Records[n][j].fd => i = j
  /\ \A n, m \in Nodes : \A r \in Rows(n), s \in Rows(m) :
       r.endpoint = s.endpoint /\ r.fmode = s.fmode => n = m /\ r = s
  /\ Programs \subseteq [Nodes -> Seq(SUBSET Calls)]

VARIABLES
  status,   \* "run", "waiting" (in zmq_recv for a reply), "done" or "dead"
  prog,     \* the calls each node has still to make
  cells,    \* sockf_array; <<>> is NULL
  alive,    \* the ZeroMQ sockets a node has open
  made,     \* how many it has made (numbers them)
  req,      \* per endpoint: the request in flight
  rep,      \* per endpoint: the reply in flight
  sent,     \* per endpoint: lengths the writer was told it wrote (history)
  got,      \* per endpoint: lengths the reader got (history)
  faults    \* what went wrong outside the layer (history)

pool == <<cells, alive, made>>
wire == <<req, rep, sent, got>>
vars == <<status, prog, pool, wire, faults>>

Init ==
  /\ status = [n \in Nodes |-> "run"]
  /\ prog \in Programs
  /\ cells = [n \in Nodes |-> <<>>]
  /\ alive = [n \in Nodes |-> {}]
  /\ made = [n \in Nodes |-> 0]
  /\ req = [e \in Ends |-> None]
  /\ rep = [e \in Ends |-> None]
  /\ sent = [e \in Ends |-> <<>>]
  /\ got = [e \in Ends |-> <<>>]
  /\ faults = {}

Lesser(a, b) == IF a < b THEN a ELSE b

Call(n, op, c) ==
  /\ status[n] = "run"
  /\ prog[n] # <<>>
  /\ c \in Head(prog[n])
  /\ c.op = op

\* The call returns and the program goes on, or ends with status s.
Goes(n, s) ==
  /\ status' = [status EXCEPT ![n] = s]
  /\ prog' = [prog EXCEPT ![n] = Tail(@)]

\* One failure of the system under the layer per behaviour.
Fault(kind) == faults = {} /\ faults' = {kind}

\* NaClAbort, a failed assert or a crash: the kernel closes what was open.
Dies(n) ==
  /\ status' = [status EXCEPT ![n] = "dead"]
  /\ alive' = [alive EXCEPT ![n] = {}]
  /\ UNCHANGED <<prog, cells, made>>

----------------------------------------------------------------------------
(* The pool of sockets.                                                    *)

UnusedCell(fd) == [fd |-> fd, unused |-> TRUE, sock |-> 0]
UsedCell(fd, sock) == [fd |-> fd, unused |-> FALSE, sock |-> sock]

\* init_zeromq_pool
FreshPool == [i \in 1 .. Granularity |-> UnusedCell(0)]

\* sockf_by_fd: the cell i is in use for fd.
InUse(c, i, fd) == i \in DOMAIN c /\ ~c[i].unused /\ c[i].fd = fd

\* Mutant: nobody looks whether the descriptor is open.
Opened_Never(n, fd) == FALSE

Opened(n, fd) == \E i \in DOMAIN cells[n] : InUse(cells[n], i, fd)

First(i, s) == i \in s /\ \A j \in s : i <= j

\* add_sockf_copy_to_array: the first unused cell, the array extended when
\* there is none.
Full(c) == \A i \in DOMAIN c : ~c[i].unused

Extended(c) ==
  IF Full(c) THEN [i \in 1 .. Len(c) + Granularity |->
                     IF i <= Len(c) THEN c[i] ELSE UnusedCell(Junk)]
             ELSE c

Added(c, fd, sock) ==
  LET room == Extended(c)
      unused == {i \in DOMAIN room : room[i].unused}
  IN  [i \in DOMAIN room |-> IF First(i, unused) THEN UsedCell(fd, sock) ELSE room[i]]

\* remove_sockf_from_array_by_fd: the first cell that holds fd, in use or
\* not.  What a cell that was never set holds is not known; "junk" are those
\* of them that happen to hold fd.
Removed(c, fd, junk) ==
  LET holds == {i \in DOMAIN c : c[i].fd = fd} \union junk
  IN  [i \in DOMAIN c |-> IF First(i, holds) THEN [c[i] EXCEPT !.unused = TRUE] ELSE c[i]]

Junks(c) == {i \in DOMAIN c : c[i].fd = Junk}

\* open_all_comm_files on a fresh pool: a cell for each row, in the order of
\* the rows; "failed" are the rows whose zmq_socket gave NULL.
Size(rows, size) ==
  /\ size % Granularity = 0
  /\ size = Granularity \/ size < Len(rows) + Granularity

OpenedAll(rows, size, failed) ==
  [i \in 1 .. size |->
     IF i <= Len(rows) THEN UsedCell(rows[i].fd, IF i \in failed THEN 0 ELSE i)
     ELSE UnusedCell(IF i <= Granularity THEN 0 ELSE Junk)]

\* init_zvm_networking.  The session ends when the database cannot be read
\* or a channel cannot be opened.  That init_zeromq_pool failed is not
\* looked at: add_sockf_copy_to_array then refuses every socket, each is
\* closed again, and open_sockf returns the copy it freed.
InitNetworking(n, c) ==
  /\ Call(n, "init", c)
  /\ made[n] = 0
  /\ UNCHANGED wire
  /\ \/ /\ \E size \in Len(Records[n]) .. Len(Records[n]) + Granularity,
              failed \in {{}} \union {{i} : i \in DOMAIN Records[n]} :
             /\ Size(Records[n], size)
             /\ cells' = [cells EXCEPT ![n] = OpenedAll(Records[n], size, failed)]
             /\ alive' = [alive EXCEPT ![n] = DOMAIN Records[n] \ failed]
             /\ IF failed = {} THEN UNCHANGED faults ELSE Fault("socket")
        /\ made' = [made EXCEPT ![n] = Len(Records[n])]
        /\ Goes(n, "run")
     \/ /\ Fault("memory")
        /\ made' = [made EXCEPT ![n] = Len(Records[n])]
        /\ Goes(n, "run")
        /\ UNCHANGED <<cells, alive>>
     \/ Fault("start") /\ Dies(n)

\* init_zeromq_pool alone, as a caller of the pool's own interface does.
InitPool(n, c) ==
  /\ Call(n, "pool", c)
  /\ made[n] = 0
  /\ cells' = [cells EXCEPT ![n] = FreshPool]
  /\ Goes(n, "run")
  /\ UNCHANGED <<alive, made, wire, faults>>

\* open_sockf on a pool that is initialised.  A descriptor that is open, or
\* in no row, opens nothing.
Open(n, c) ==
  /\ Call(n, "open", c)
  /\ cells[n] # <<>>
  /\ UNCHANGED wire
  /\ IF Opened(n, c.fd) \/ ~\E r \in Rows(n) : r.fd = c.fd
     THEN Goes(n, "run") /\ UNCHANGED <<pool, faults>>
     ELSE \/ /\ made' = [made EXCEPT ![n] = @ + 1]
             /\ cells' = [cells EXCEPT ![n] = Added(@, c.fd, made[n] + 1)]
             /\ alive' = [alive EXCEPT ![n] = @ \union {made[n] + 1}]
             /\ Goes(n, "run")
             /\ UNCHANGED faults
          \/ /\ Fault("socket")
             /\ cells' = [cells EXCEPT ![n] = Added(@, c.fd, 0)]
             /\ Goes(n, "run")
             /\ UNCHANGED <<alive, made>>
          \/ Fault("start") /\ Goes(n, "run") /\ UNCHANGED pool
          \/ Full(cells[n]) /\ Fault("memory") /\ Dies(n)

\* The sockets of the cells of node n in use for a descriptor of fds, and
\* what closing them leaves: a REP socket takes a pending request with it.
Socks(n, fds) == {cells[n][i].sock : i \in {j \in DOMAIN cells[n] :
                                              ~cells[n][j].unused /\ cells[n][j].fd \in fds}}

\* Mutant: a reader's socket is left open.
Hangup_WritersOnly(n, fds) ==
  /\ alive' = [alive EXCEPT ![n] = @ \ Socks(n, {r.fd : r \in {s \in Rows(n) :
                                                      s.fmode = "w" /\ s.fd \in fds}})]
  /\ req' = [e \in Ends |-> IF \E r \in Rows(n) : r.endpoint = e /\ r.fmode = "w" /\ r.fd \in fds
                            THEN None ELSE req[e]]
  /\ UNCHANGED <<rep, sent, got, made, faults>>

Hangup(n, fds) ==
  /\ alive' = [alive EXCEPT ![n] = @ \ Socks(n, fds)]
  /\ req' = [e \in Ends |-> IF \E r \in Rows(n) : r.endpoint = e /\ r.fmode = "w" /\ r.fd \in fds
                            THEN None ELSE req[e]]
  /\ UNCHANGED <<rep, sent, got, made, faults>>

\* close_sockf with the handle of an open socket, or once more with one that
\* is closed.
Close(n, c) ==
  /\ Call(n, "close", c)
  /\ \E junk \in SUBSET Junks(cells[n]) :
       cells' = [cells EXCEPT ![n] = Removed(@, c.fd, junk)]
  /\ Hangup(n, {c.fd})
  /\ Goes(n, "run")

\* term_zvm_networking: close_all_comm_files reads the array without asking
\* whether there is one.  The context is not terminated.
TermNetworking(n, c) ==
  /\ Call(n, "term", c)
  /\ \/ /\ cells[n] # <<>>
        /\ cells' = [cells EXCEPT ![n] = [i \in DOMAIN @ |-> [@[i] EXCEPT !.unused = TRUE]]]
        /\ Hangup(n, {r.fd : r \in Rows(n)})
        /\ Goes(n, "done")
     \/ cells[n] = <<>> /\ Dies(n) /\ UNCHANGED <<wire, faults>>

----------------------------------------------------------------------------
(* Transfers.                                                              *)

\* capabilities_for_file_fd allows fmode, and the socket is there.
Usable(n, r, fd, fmode) ==
  /\ r \in Rows(n)
  /\ r.fd = fd
  /\ r.fmode = fmode
  /\ \E i \in DOMAIN cells[n] : InUse(cells[n], i, fd) /\ cells[n][i].sock # 0

\* The trap aborts the session: not allowed, no socket, or (assert) a socket
\* that is NULL.
Unusable(n, c, fmode) ==
  /\ ~\E r \in Rows(n) : Usable(n, r, c.fd, fmode)
  /\ faults' = faults \union {"program"}
  /\ Dies(n)
  /\ UNCHANGED wire

\* commf_read up to its zmq_recv.  A read of nothing posts its request and
\* is then refused by read_sockf.
Read(n, c) ==
  /\ Call(n, "read", c)
  /\ \/ Unusable(n, c, "r")
     \/ \E r \in Rows(n) :
          /\ Usable(n, r, c.fd, "r")
          /\ req' = [req EXCEPT ![r.endpoint] = c.size]
          /\ UNCHANGED <<rep, sent, got>>
          /\ \/ /\ c.size > 0
                /\ status' = [status EXCEPT ![n] = "waiting"]
                /\ prog' = [prog EXCEPT ![n][1] = {c}]
                /\ UNCHANGED <<pool, faults>>
             \/ /\ c.size = 0
                /\ faults' = faults \union {"program"}
                /\ Dies(n)

\* commf_read from there: zmq_recv has the reply.  read_channel asserts that
\* it is as long as was asked for.
Receive(n, c) ==
  /\ status[n] = "waiting"
  /\ c \in Head(prog[n])
  /\ \E r \in Rows(n) :
       /\ r.fd = c.fd
       /\ rep[r.endpoint] # None
       /\ got' = [got EXCEPT ![r.endpoint] = Append(@, Lesser(rep[r.endpoint], c.size))]
       /\ rep' = [rep EXCEPT ![r.endpoint] = None]
       /\ IF c.exact /\ rep[r.endpoint] < c.size
          THEN Dies(n)
          ELSE Goes(n, "run") /\ UNCHANGED pool
  /\ UNCHANGED <<req, sent, faults>>

\* Mutant: the request's length is not looked at.
Sdata_All(asked, count) == count

\* write only requested data, or all data if there is less
Sdata(asked, count) == Lesser(asked, count)

\* commf_write: zmq_recv waits for a request; the reply is what was asked
\* for, or all there is when that is less.  write_sockf refuses to send
\* nothing, which the assert does not survive.
Write(n, c) ==
  /\ Call(n, "write", c)
  /\ \/ Unusable(n, c, "w")
     \/ \E r \in Rows(n) :
          /\ Usable(n, r, c.fd, "w")
          /\ req[r.endpoint] # None
          /\ req' = [req EXCEPT ![r.endpoint] = None]
          /\ UNCHANGED got
          /\ LET sdata == Sdata(req[r.endpoint], c.size)
             IN  \/ /\ sdata > 0
                    /\ rep' = [rep EXCEPT ![r.endpoint] = sdata]
                    /\ sent' = [sent EXCEPT ![r.endpoint] = Append(@, sdata)]
                    /\ IF c.exact /\ sdata < c.size
                       THEN Dies(n)
                       ELSE Goes(n, "run") /\ UNCHANGED pool
                    /\ UNCHANGED faults
                 \/ /\ sdata = 0
                    /\ faults' = faults \union {"program"}
                    /\ Dies(n)
                    /\ UNCHANGED <<rep, sent>>

\* A message whose sender has ended may still be in the sender's memory:
\* nothing waited for it to leave.
Lose(e) ==
  /\ \E n \in Nodes : \E r \in Rows(n) :
       /\ r.endpoint = e
       /\ status[n] \in {"done", "dead"}
       /\ \/ /\ r.fmode = "w"
             /\ rep[e] # None
             /\ rep' = [rep EXCEPT ![e] = None]
             /\ UNCHANGED req
          \/ /\ r.fmode = "r"
             /\ req[e] # None
             /\ req' = [req EXCEPT ![e] = None]
             /\ UNCHANGED rep
  /\ faults' = faults \union {"lost"}
  /\ UNCHANGED <<status, prog, pool, sent, got>>

Step(n) ==
  /\ prog[n] # <<>>
  /\ \E c \in Head(prog[n]) :
       \/ InitNetworking(n, c) \/ InitPool(n, c) \/ Open(n, c) \/ Close(n, c)
       \/ TermNetworking(n, c) \/ Read(n, c) \/ Receive(n, c) \/ Write(n, c)

Next ==
  \/ \E n \in Nodes : Step(n)
  \/ \E e \in Ends : Lose(e)

\* Each node is a process of its own that the host schedules.
Fairness == \A n \in Nodes : WF_vars(Step(n))

Spec == Init /\ [][Next]_vars /\ Fairness

----------------------------------------------------------------------------
(* Properties.                                                             *)

\* remove_sockf_from_array_by_fd takes the first cell that holds the
\* descriptor, used or not, set or not: no cell before one in use holds its
\* descriptor or was never set, so that closing a socket frees its own cell.
LiveCellFirst ==
  \A n \in Nodes : \A i, j \in DOMAIN cells[n] :
    j < i /\ ~cells[n][i].unused =>
      /\ cells[n][j].fd # cells[n][i].fd
      /\ cells[n][j].fd # Junk

\* The ZeroMQ sockets a process has open are those of its cells in use, one
\* each: none is closed while the pool shows it, none is left behind by a
\* failed open, by close_sockf or by close_all_comm_files.
SocketsAccounted ==
  \A n \in Nodes :
    IF status[n] = "dead" THEN alive[n] = {}
    ELSE /\ alive[n] = {cells[n][i].sock : i \in {j \in DOMAIN cells[n] :
                                                    ~cells[n][j].unused /\ cells[n][j].sock # 0}}
         /\ status[n] = "done" => alive[n] = {}

\* A channel carries each transfer whole, in order and once: commf_read gets
\* the bytes commf_write said it wrote, and no write overtakes a read.
Channels == INSTANCE CommFile WITH Sizes <- 1 .. MaxSize

ImplementsChannels == Channels!Spec

\* The order in which the programs read and write leaves nobody waiting for
\* ever: unless something fails, each comes to its end.
Finishes ==
  <>(faults # {} \/ \A n \in Nodes : prog[n] = <<>> /\ status[n] \in {"run", "done"})
=============================================================================
