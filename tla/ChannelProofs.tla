--------------------------- MODULE ChannelProofs ---------------------------
(***************************************************************************)
(* Network implements CommFile, for any nodes, rows and programs: what is  *)
(* in flight on a channel is what its two ends disagree about.             *)
(***************************************************************************)
EXTENDS NetworkProofs

\* A channel with nothing on its way.
Quiet(e) == req[e] = None /\ rep[e] = None /\ sent[e] = got[e]

\* A channel on which the call c waits for a reply.
Asked(e, c) ==
  /\ req[e] # None => req[e] = c.size
  /\ rep[e] # None => rep[e] <= c.size

\* A request is out only when everything written was read; a reply is the
\* one transfer the reader has not seen.
WireOK(e) ==
  /\ req[e] # None => sent[e] = got[e] /\ rep[e] = None
  /\ rep[e] # None => rep[e] \in 1 .. MaxSize /\ sent[e] = Append(got[e], rep[e])

Waits(n, c) ==
  /\ Head(prog[n]) = {c}
  /\ c.size > 0
  /\ \A r \in Rows(n) : r.fd = c.fd => r.fmode = "r" /\ Asked(r.endpoint, c)
  /\ \A r \in Rows(n) : r.fmode = "r" /\ r.fd # c.fd => Quiet(r.endpoint)

\* A node that runs has read all it asked for; one that waits, all but that.
ReaderOK(n) ==
  /\ status[n] = "run" => \A r \in Rows(n) : r.fmode = "r" => Quiet(r.endpoint)
  /\ status[n] = "waiting" => prog[n] # <<>> /\ \E c \in Calls : Waits(n, c)

ChanType ==
  /\ status \in [Nodes -> Statuses]
  /\ prog \in [Nodes -> Seq(SUBSET Calls)]
  /\ req \in [Ends -> 0 .. MaxSize \union {None}]
  /\ rep \in [Ends -> Int]
  /\ sent \in [Ends -> Seq(Int)]
  /\ got \in [Ends -> Seq(Int)]

ChanInv ==
  /\ ChanType
  /\ \A e \in Ends : WireOK(e)
  /\ \A n \in Nodes : ReaderOK(n)

\* A descriptor of a node has one row, an endpoint one reader.
LEMMA OneRow ==
  ASSUME NEW n \in Nodes, NEW r \in Rows(n), NEW s \in Rows(n), r.fd = s.fd
  PROVE  r = s
BY NetworkAssumption DEF Rows

LEMMA OneReader ==
  ASSUME NEW n \in Nodes, NEW m \in Nodes, NEW r \in Rows(n), NEW s \in Rows(m),
         r.fmode = s.fmode, r.endpoint = s.endpoint
  PROVE  n = m /\ r = s
BY NetworkAssumption

LEMMA EndpointOfRow ==
  ASSUME NEW n \in Nodes, NEW r \in Rows(n)
  PROVE  r.endpoint \in Ends
BY RowsFd

\* The call that returns leaves the rest of the program.
LEMMA GoesType ==
  ASSUME ChanType, NEW n \in Nodes, NEW s \in Statuses, Goes(n, s), prog[n] # <<>>
  PROVE  /\ status' \in [Nodes -> Statuses] /\ prog' \in [Nodes -> Seq(SUBSET Calls)]
         /\ status'[n] = s
         /\ \A m \in Nodes : m # n => status'[m] = status[m] /\ prog'[m] = prog[m]
<1>1. prog[n] \in Seq(SUBSET Calls)
  BY DEF ChanType
<1>2. Tail(prog[n]) \in Seq(SUBSET Calls)
  BY <1>1, HeadTailProperties
<1> QED
  BY <1>2 DEF Goes, ChanType

LEMMA DiesType ==
  ASSUME ChanType, NEW n \in Nodes, Dies(n)
  PROVE  /\ status' \in [Nodes -> Statuses] /\ prog' \in [Nodes -> Seq(SUBSET Calls)]
         /\ status'[n] = "dead"
         /\ \A m \in Nodes : m # n => status'[m] = status[m] /\ prog'[m] = prog[m]
BY DEF Dies, ChanType, Statuses

\* A step that puts nothing on a channel, and in which no node starts to wait.
LEMMA NothingSent ==
  ASSUME ChanInv, UNCHANGED <<sent, got>>,
         status' \in [Nodes -> Statuses], prog' \in [Nodes -> Seq(SUBSET Calls)],
         req' \in [Ends -> 0 .. MaxSize \union {None}], rep' \in [Ends -> Int],
         \A e \in Ends : req'[e] \in {req[e], None} /\ rep'[e] \in {rep[e], None},
         \A m \in Nodes : \/ status'[m] = status[m] /\ prog'[m] = prog[m]
                          \/ status'[m] \in {"done", "dead"}
                          \/ status[m] = "run" /\ status'[m] = "run"
  PROVE  ChanInv'
<1>1. ChanType'
  BY DEF ChanInv, ChanType
<1>2. ASSUME NEW e \in Ends PROVE WireOK(e)'
  <2>1. req'[e] \in {req[e], None} /\ rep'[e] \in {rep[e], None}
    OBVIOUS
  <2>2. WireOK(e)
    BY DEF ChanInv
  <2> QED
    BY <2>1, <2>2 DEF WireOK
<1>3. ASSUME NEW e \in Ends
      PROVE  (Quiet(e) => Quiet(e)') /\ \A c \in Calls : Asked(e, c) => Asked(e, c)'
  <2>1. req'[e] \in {req[e], None} /\ rep'[e] \in {rep[e], None}
    OBVIOUS
  <2> QED
    BY <2>1 DEF Quiet, Asked
<1>4. ASSUME NEW n \in Nodes PROVE ReaderOK(n)'
  <2>1. ReaderOK(n) /\ \A r \in Rows(n) : r.endpoint \in Ends
    BY EndpointOfRow DEF ChanInv
  <2>2. CASE status'[n] = "run" /\ status[n] = "run"
    BY <1>3, <2>1, <2>2 DEF ReaderOK
  <2>3. CASE status'[n] \in {"done", "dead"}
    BY <2>3 DEF ReaderOK
  <2>4. CASE status'[n] = "waiting" /\ status[n] = "waiting" /\ prog'[n] = prog[n]
    <3>1. PICK c \in Calls : Waits(n, c)
      BY <2>1, <2>4 DEF ReaderOK
    <3>2. Waits(n, c)'
      BY <1>3, <2>1, <2>4, <3>1 DEF Waits
    <3> QED
      BY <2>1, <2>4, <3>2 DEF ReaderOK
  <2> QED
    BY <2>2, <2>3, <2>4 DEF ChanInv, ChanType, Statuses
<1> QED
  BY <1>1, <1>2, <1>4 DEF ChanInv

\* The calls that only open and close.
LEMMA HousekeepingChan ==
  ASSUME ChanInv, NEW n \in Nodes, NEW c, prog[n] # <<>>,
         InitNetworking(n, c) \/ InitPool(n, c) \/ Open(n, c) \/ Close(n, c) \/ TermNetworking(n, c)
  PROVE  ChanInv' /\ UNCHANGED <<sent, got>>
<1>1. ChanType /\ status[n] = "run"
  BY DEF ChanInv, InitNetworking, InitPool, Open, Close, TermNetworking, Call
<1>2. UNCHANGED <<sent, got>>
  BY DEF InitNetworking, InitPool, Open, Close, TermNetworking, Hangup, wire
<1>3. rep' = rep
  BY DEF InitNetworking, InitPool, Open, Close, TermNetworking, Hangup, wire
<1>4. req' \in [Ends -> 0 .. MaxSize \union {None}] /\ \A e \in Ends : req'[e] \in {req[e], None}
  <2>1. CASE req' = req
    BY <1>1, <2>1 DEF ChanType
  <2>2. ASSUME NEW fds, Hangup(n, fds)
        PROVE  <1>4!:
    BY <1>1, <2>2 DEF ChanType, Hangup
  <2> QED
    BY <2>1, <2>2 DEF InitNetworking, InitPool, Open, Close, TermNetworking, wire
<1>5. Goes(n, "run") \/ Goes(n, "done") \/ Dies(n)
  BY DEF InitNetworking, InitPool, Open, Close, TermNetworking
<1>6. /\ status' \in [Nodes -> Statuses] /\ prog' \in [Nodes -> Seq(SUBSET Calls)]
      /\ status'[n] \in {"run", "done", "dead"}
      /\ \A m \in Nodes : m # n => status'[m] = status[m] /\ prog'[m] = prog[m]
  <2>1. CASE Dies(n)
    BY <1>1, <2>1, DiesType
  <2>2. ASSUME NEW s \in {"run", "done"}, Goes(n, s)
        PROVE  <1>6!:
    <3>1. s \in Statuses
      BY DEF Statuses
    <3> QED
      BY <1>1, <2>2, <3>1, GoesType
  <2> QED
    BY <1>5, <2>1, <2>2
<1>7. rep' \in [Ends -> Int] /\ \A e \in Ends : rep'[e] \in {rep[e], None}
  BY <1>1, <1>3 DEF ChanType
<1>8. \A m \in Nodes : \/ status'[m] = status[m] /\ prog'[m] = prog[m]
                       \/ status'[m] \in {"done", "dead"}
                       \/ status[m] = "run" /\ status'[m] = "run"
  BY <1>1, <1>6
<1> QED
  BY <1>2, <1>4, <1>6, <1>7, <1>8, NothingSent

LEMMA UnusableChan ==
  ASSUME ChanInv, NEW n \in Nodes, NEW c, NEW fmode, Unusable(n, c, fmode)
  PROVE  ChanInv' /\ UNCHANGED <<sent, got>>
<1>1. ChanType /\ Dies(n) /\ req' = req /\ rep' = rep /\ UNCHANGED <<sent, got>>
  BY DEF ChanInv, Unusable, wire
<1>2. /\ status' \in [Nodes -> Statuses] /\ prog' \in [Nodes -> Seq(SUBSET Calls)]
      /\ status'[n] = "dead"
      /\ \A m \in Nodes : m # n => status'[m] = status[m] /\ prog'[m] = prog[m]
  BY <1>1, DiesType
<1>3. /\ req' \in [Ends -> 0 .. MaxSize \union {None}] /\ rep' \in [Ends -> Int]
      /\ \A e \in Ends : req'[e] \in {req[e], None} /\ rep'[e] \in {rep[e], None}
  BY <1>1 DEF ChanType
<1>4. \A m \in Nodes : \/ status'[m] = status[m] /\ prog'[m] = prog[m]
                       \/ status'[m] \in {"done", "dead"}
                       \/ status[m] = "run" /\ status'[m] = "run"
  BY <1>2
<1> QED
  BY <1>1, <1>2, <1>3, <1>4, NothingSent

LEMMA LoseChan ==
  ASSUME ChanInv, NEW e \in Ends, Lose(e)
  PROVE  ChanInv' /\ UNCHANGED <<sent, got>>
<1>1. ChanType /\ UNCHANGED <<status, prog, sent, got>>
  BY DEF ChanInv, Lose
<1>2. \/ rep' = [rep EXCEPT ![e] = None] /\ req' = req
      \/ req' = [req EXCEPT ![e] = None] /\ rep' = rep
  BY DEF Lose
<1>3. /\ req' \in [Ends -> 0 .. MaxSize \union {None}] /\ rep' \in [Ends -> Int]
      /\ \A f \in Ends : req'[f] \in {req[f], None} /\ rep'[f] \in {rep[f], None}
  <2>1. None \in Int
    BY DEF None
  <2>2. CASE rep' = [rep EXCEPT ![e] = None] /\ req' = req
    BY <1>1, <2>1, <2>2 DEF ChanType
  <2>3. CASE req' = [req EXCEPT ![e] = None] /\ rep' = rep
    BY <1>1, <2>1, <2>3 DEF ChanType
  <2> QED
    BY <1>2, <2>2, <2>3
<1>4. /\ status' \in [Nodes -> Statuses] /\ prog' \in [Nodes -> Seq(SUBSET Calls)]
      /\ \A m \in Nodes : status'[m] = status[m] /\ prog'[m] = prog[m]
  BY <1>1 DEF ChanType
<1> QED
  BY <1>1, <1>3, <1>4, NothingSent

\* A transfer touches one channel: the others stay as they were.
LEMMA OtherChannels ==
  ASSUME NEW f, req'[f] = req[f], rep'[f] = rep[f], sent'[f] = sent[f], got'[f] = got[f]
  PROVE  /\ Quiet(f)' <=> Quiet(f)
         /\ WireOK(f)' <=> WireOK(f)
         /\ \A c : Asked(f, c)' <=> Asked(f, c)
BY DEF Quiet, WireOK, Asked

\* A node that took no part, and has no part in the channel e, is as it was.
LEMMA OtherNodes ==
  ASSUME ChanInv, NEW e \in Ends, NEW m \in Nodes,
         \A f \in Ends \ {e} : req'[f] = req[f] /\ rep'[f] = rep[f] /\ sent'[f] = sent[f] /\ got'[f] = got[f],
         \A r \in Rows(m) : r.fmode = "r" => r.endpoint # e,
         status'[m] = status[m], prog'[m] = prog[m]
  PROVE  ReaderOK(m)'
<1>1. ReaderOK(m)
  BY DEF ChanInv
<1>2. \A r \in Rows(m) : r.fmode = "r" => r.endpoint \in Ends \ {e}
  BY EndpointOfRow
<1>3. \A f \in Ends \ {e} : (Quiet(f) => Quiet(f)') /\ \A c : Asked(f, c) => Asked(f, c)'
  BY OtherChannels
<1>4. CASE status[m] = "run"
  BY <1>1, <1>2, <1>3, <1>4 DEF ReaderOK
<1>5. CASE status[m] = "waiting"
  <2>1. PICK c \in Calls : Waits(m, c)
    BY <1>1, <1>5 DEF ReaderOK
  <2>2. Waits(m, c)'
    BY <1>2, <1>3, <2>1 DEF Waits
  <2> QED
    BY <1>1, <1>5, <2>2 DEF ReaderOK
<1>6. CASE status[m] \notin {"run", "waiting"}
  BY <1>6 DEF ReaderOK
<1> QED
  BY <1>4, <1>5, <1>6

LEMMA ReadChan ==
  ASSUME ChanInv, NEW n \in Nodes, NEW c \in Calls, prog[n] # <<>>, Read(n, c)
  PROVE  ChanInv' /\ UNCHANGED <<sent, got>>
<1>1. CASE Unusable(n, c, "r")
  BY <1>1, UnusableChan
<1>2. ASSUME NEW r \in Rows(n), Usable(n, r, c.fd, "r"),
             req' = [req EXCEPT ![r.endpoint] = c.size], UNCHANGED <<rep, sent, got>>,
             \/ /\ c.size > 0
                /\ status' = [status EXCEPT ![n] = "waiting"]
                /\ prog' = [prog EXCEPT ![n][1] = {c}]
             \/ Dies(n)
      PROVE  ChanInv'
  <2> DEFINE e == r.endpoint
  <2>1. /\ ChanType /\ status[n] = "run" /\ e \in Ends /\ c.size \in 0 .. MaxSize
        /\ r.fd = c.fd /\ r.fmode = "r"
    BY <1>2, EndpointOfRow DEF ChanInv, Read, Call, Usable, Calls
  <2>2. Quiet(e)
    BY <2>1 DEF ChanInv, ReaderOK
  <2>3. /\ req' \in [Ends -> 0 .. MaxSize \union {None}] /\ req'[e] = c.size
        /\ \A f \in Ends \ {e} : req'[f] = req[f]
    BY <1>2, <2>1 DEF ChanType
  <2>4. \A f \in Ends \ {e} : req'[f] = req[f] /\ rep'[f] = rep[f] /\ sent'[f] = sent[f] /\ got'[f] = got[f]
    BY <1>2, <2>3
  <2>5. ASSUME c.size > 0, status' = [status EXCEPT ![n] = "waiting"],
               prog' = [prog EXCEPT ![n][1] = {c}]
        PROVE  /\ status' \in [Nodes -> Statuses] /\ prog' \in [Nodes -> Seq(SUBSET Calls)]
               /\ status'[n] = "waiting" /\ prog'[n] # <<>> /\ Head(prog'[n]) = {c}
               /\ \A m \in Nodes : m # n => status'[m] = status[m] /\ prog'[m] = prog[m]
    <3> DEFINE p == prog[n]
               q == [p EXCEPT ![1] = {c}]
    <3>1. p \in Seq(SUBSET Calls) /\ p # <<>> /\ 1 \in 1 .. Len(p) /\ {c} \in SUBSET Calls
      BY <2>1, EmptySeq, LenProperties DEF ChanType
    <3>2. q \in Seq(SUBSET Calls) /\ Len(q) = Len(p) /\ q[1] = {c}
      <4> HIDE DEF p
      <4> QED
        BY <3>1, ExceptSeq
    <3>3. q # <<>> /\ Head(q) = {c}
      <4> HIDE DEF p, q
      <4> QED
        BY <3>1, <3>2
    <3>4. prog' = [prog EXCEPT ![n] = q]
      BY <2>1, <2>5 DEF ChanType
    <3> HIDE DEF q
    <3> QED
      BY <2>1, <2>5, <3>2, <3>3, <3>4 DEF ChanType, Statuses
  <2>6. /\ status' \in [Nodes -> Statuses] /\ prog' \in [Nodes -> Seq(SUBSET Calls)]
        /\ \A m \in Nodes : m # n => status'[m] = status[m] /\ prog'[m] = prog[m]
        /\ \/ status'[n] = "dead"
           \/ status'[n] = "waiting" /\ prog'[n] # <<>> /\ Head(prog'[n]) = {c} /\ c.size > 0
    BY <1>2, <2>1, <2>5, DiesType
  <2>7. ChanType'
    BY <1>2, <2>1, <2>3, <2>6 DEF ChanType
  <2>8. ASSUME NEW f \in Ends PROVE WireOK(f)'
    <3>1. CASE f = e
      BY <1>2, <2>2, <3>1 DEF Quiet, WireOK
    <3>2. CASE f # e
      BY <2>4, <3>2, OtherChannels DEF ChanInv
    <3> QED
      BY <3>1, <3>2
  <2>9. ASSUME NEW m \in Nodes, m # n PROVE ReaderOK(m)'
    <3>1. \A s \in Rows(m) : s.fmode = "r" => s.endpoint # e
      BY <2>1, <2>9, OneReader
    <3> HIDE DEF e
    <3> QED
      BY <2>1, <2>4, <2>6, <2>9, <3>1, OtherNodes
  <2>10. ReaderOK(n)'
    <3>1. CASE status'[n] = "dead"
      BY <3>1 DEF ReaderOK
    <3>2. CASE status'[n] = "waiting" /\ prog'[n] # <<>> /\ Head(prog'[n]) = {c} /\ c.size > 0
      <4>1. ASSUME NEW s \in Rows(n), s.fd = c.fd
            PROVE  s.fmode = "r" /\ Asked(s.endpoint, c)'
        <5>1. s = r
          BY <2>1, <4>1, OneRow
        <5>2. rep'[e] = None
          BY <1>2, <2>2 DEF Quiet
        <5> QED
          BY <2>1, <2>3, <5>1, <5>2 DEF Asked
      <4>2. ASSUME NEW s \in Rows(n), s.fmode = "r", s.fd # c.fd
            PROVE  Quiet(s.endpoint)'
        <5>1. s.endpoint # e /\ s.endpoint \in Ends
          BY <2>1, <4>2, OneReader, EndpointOfRow
        <5>2. Quiet(s.endpoint)
          BY <2>1, <4>2 DEF ChanInv, ReaderOK
        <5> QED
          BY <2>4, <5>1, <5>2, OtherChannels
      <4>3. Waits(n, c)'
        BY <3>2, <4>1, <4>2 DEF Waits
      <4> QED
        BY <3>2, <4>3 DEF ReaderOK
    <3> QED
      BY <2>6, <3>1, <3>2
  <2> QED
    BY <2>7, <2>8, <2>9, <2>10 DEF ChanInv
<1>3. UNCHANGED <<sent, got>>
  BY DEF Read, Unusable, wire
<1> QED
  BY <1>1, <1>2, <1>3 DEF Read

\* The reader gets the one transfer it had not seen, whole.
LEMMA ReceiveChan ==
  ASSUME ChanInv, NEW n \in Nodes, NEW c \in Calls, prog[n] # <<>>, Receive(n, c)
  PROVE  ChanInv' /\ \E e \in Ends : Channels!Read(e)
<1>1. PICK r \in Rows(n) :
        /\ r.fd = c.fd
        /\ rep[r.endpoint] # None
        /\ got' = [got EXCEPT ![r.endpoint] = Append(@, Lesser(rep[r.endpoint], c.size))]
        /\ rep' = [rep EXCEPT ![r.endpoint] = None]
        /\ Dies(n) \/ Goes(n, "run")
  BY DEF Receive
<1> DEFINE e == r.endpoint
<1>2. /\ ChanType /\ status[n] = "waiting" /\ e \in Ends /\ c.size \in Nat
      /\ req' = req /\ sent' = sent
  BY EndpointOfRow, NetworkAssumption DEF ChanInv, Receive, Calls
<1>3. Waits(n, c)
  <2>1. PICK d \in Calls : Waits(n, d)
    BY <1>2 DEF ChanInv, ReaderOK
  <2>2. c = d
    BY <2>1 DEF Waits, Receive
  <2> QED
    BY <2>1, <2>2
<1>4. r.fmode = "r" /\ rep[e] <= c.size
  BY <1>1, <1>3 DEF Waits, Asked
<1>5. rep[e] \in Nat /\ sent[e] = Append(got[e], rep[e]) /\ req[e] = None
  BY <1>1, <1>2 DEF ChanInv, WireOK
<1>6. Lesser(rep[e], c.size) = rep[e]
  BY <1>2, <1>4, <1>5 DEF Lesser
<1>7. /\ got' = [got EXCEPT ![e] = sent[e]] /\ got'[e] = sent[e]
      /\ got' \in [Ends -> Seq(Int)]
      /\ rep' \in [Ends -> Int] /\ rep'[e] = None
  <2>1. got' = [got EXCEPT ![e] = Append(got[e], rep[e])]
    BY <1>1, <1>2, <1>6 DEF ChanType
  <2>2. got' = [got EXCEPT ![e] = sent[e]]
    BY <1>5, <2>1
  <2> HIDE DEF e
  <2>3. None \in Int
    BY DEF None
  <2> QED
    BY <1>1, <1>2, <2>2, <2>3 DEF ChanType, e
<1>8. got[e] # sent[e]
  <2> DEFINE g == got[e]
             x == rep[e]
  <2>1. g \in Seq(Int) /\ x \in Int /\ sent[e] = Append(g, x)
    BY <1>2, <1>5 DEF ChanType
  <2> HIDE DEF g, x
  <2>2. Len(Append(g, x)) = Len(g) + 1 /\ Len(g) \in Nat
    BY <2>1, AppendProperties, LenProperties
  <2>3. g # Append(g, x)
    BY <2>2
  <2> QED
    BY <2>1, <2>3 DEF g
<1>9. \A f \in Ends \ {e} : req'[f] = req[f] /\ rep'[f] = rep[f] /\ sent'[f] = sent[f] /\ got'[f] = got[f]
  BY <1>1, <1>2, <1>7 DEF ChanType
<1>10. /\ status' \in [Nodes -> Statuses] /\ prog' \in [Nodes -> Seq(SUBSET Calls)]
       /\ \A m \in Nodes : m # n => status'[m] = status[m] /\ prog'[m] = prog[m]
       /\ status'[n] \in {"run", "dead"}
  <2>1. "run" \in Statuses
    BY DEF Statuses
  <2> QED
    BY <1>1, <1>2, <2>1, DiesType, GoesType
<1>11. ChanType'
  BY <1>2, <1>7, <1>10 DEF ChanType
<1>12. Quiet(e)'
  BY <1>2, <1>5, <1>7 DEF Quiet
<1>13. ASSUME NEW f \in Ends PROVE WireOK(f)'
  <2>1. CASE f = e
    BY <1>12, <2>1 DEF Quiet, WireOK
  <2>2. CASE f # e
    BY <1>9, <2>2, OtherChannels DEF ChanInv
  <2> QED
    BY <2>1, <2>2
<1>14. ASSUME NEW m \in Nodes, m # n PROVE ReaderOK(m)'
  <2>1. \A s \in Rows(m) : s.fmode = "r" => s.endpoint # e
    BY <1>4, <1>14, OneReader
  <2> HIDE DEF e
  <2> QED
    BY <1>2, <1>9, <1>10, <1>14, <2>1, OtherNodes
<1>15. ReaderOK(n)'
  <2>1. ASSUME NEW s \in Rows(n), s.fmode = "r"
        PROVE  Quiet(s.endpoint)'
    <3>1. CASE s.fd = c.fd
      BY <1>1, <1>12, <3>1, OneRow
    <3>2. CASE s.fd # c.fd
      <4>1. s.endpoint # e /\ s.endpoint \in Ends
        BY <1>1, <1>4, <2>1, <3>2, OneReader, EndpointOfRow
      <4>2. Quiet(s.endpoint)
        BY <1>3, <2>1, <3>2 DEF Waits
      <4> QED
        BY <1>9, <4>1, <4>2, OtherChannels
    <3> QED
      BY <3>1, <3>2
  <2> QED
    BY <1>10, <2>1 DEF ReaderOK
<1>16. Channels!Read(e)
  BY <1>2, <1>7, <1>8 DEF Channels!Read
<1> QED
  BY <1>2, <1>11, <1>13, <1>14, <1>15, <1>16 DEF ChanInv

\* The writer answers a request, so everything before was read.
LEMMA WriteChan ==
  ASSUME ChanInv, NEW n \in Nodes, NEW c \in Calls, prog[n] # <<>>, Write(n, c)
  PROVE  ChanInv' /\ (UNCHANGED <<sent, got>> \/ \E e \in Ends : Channels!Write(e))
<1>1. CASE Unusable(n, c, "w")
  BY <1>1, UnusableChan
<1>2. ASSUME NEW r \in Rows(n), req[r.endpoint] # None,
             req' = [req EXCEPT ![r.endpoint] = None], UNCHANGED got,
             NEW sdata, sdata = Sdata(req[r.endpoint], c.size),
             \/ /\ sdata > 0
                /\ rep' = [rep EXCEPT ![r.endpoint] = sdata]
                /\ sent' = [sent EXCEPT ![r.endpoint] = Append(@, sdata)]
             \/ UNCHANGED <<rep, sent>>,
             Dies(n) \/ Goes(n, "run")
      PROVE  ChanInv' /\ (UNCHANGED <<sent, got>> \/ \E e \in Ends : Channels!Write(e))
  <2> DEFINE e == r.endpoint
  <2>1. ChanType /\ status[n] = "run" /\ e \in Ends /\ c.size \in 0 .. MaxSize /\ MaxSize \in Nat
    BY EndpointOfRow, NetworkAssumption DEF ChanInv, Write, Call, Calls
  <2>2. req[e] \in 0 .. MaxSize /\ sent[e] = got[e] /\ rep[e] = None
    BY <1>2, <2>1 DEF ChanInv, ChanType, WireOK
  <2>3. sdata \in 0 .. MaxSize /\ sdata <= req[e]
    <3>1. sdata = IF req[e] < c.size THEN req[e] ELSE c.size
      BY <1>2 DEF Sdata, Lesser
    <3> HIDE DEF e
    <3> QED
      BY <2>1, <2>2, <3>1
  <2>4. /\ req' \in [Ends -> 0 .. MaxSize \union {None}] /\ req'[e] = None
        /\ \A f \in Ends \ {e} : req'[f] = req[f]
    BY <1>2, <2>1 DEF ChanType
  <2>5. /\ rep' \in [Ends -> Int] /\ sent' \in [Ends -> Seq(Int)]
        /\ \A f \in Ends \ {e} : rep'[f] = rep[f] /\ sent'[f] = sent[f]
        /\ \/ sdata > 0 /\ rep'[e] = sdata /\ sent' = [sent EXCEPT ![e] = Append(@, sdata)]
              /\ sent'[e] = Append(got[e], sdata)
           \/ rep'[e] = None /\ sent' = sent
    <3>1. Append(sent[e], sdata) \in Seq(Int)
      <4>1. sent[e] \in Seq(Int) /\ sdata \in Int
        BY <2>1, <2>3 DEF ChanType
      <4> HIDE DEF e
      <4> QED
        BY <4>1, AppendProperties
    <3>2. CASE UNCHANGED <<rep, sent>>
      BY <2>1, <2>2, <3>2 DEF ChanType
    <3>3. CASE /\ sdata > 0
               /\ rep' = [rep EXCEPT ![e] = sdata]
               /\ sent' = [sent EXCEPT ![e] = Append(@, sdata)]
      <4>1. rep' \in [Ends -> Int] /\ rep'[e] = sdata /\ \A f \in Ends \ {e} : rep'[f] = rep[f]
        BY <2>1, <2>3, <3>3 DEF ChanType
      <4>2. sent' = [sent EXCEPT ![e] = Append(sent[e], sdata)]
        BY <2>1, <3>3 DEF ChanType
      <4>3. /\ sent' \in [Ends -> Seq(Int)] /\ sent'[e] = Append(sent[e], sdata)
            /\ \A f \in Ends \ {e} : sent'[f] = sent[f]
        BY <2>1, <3>1, <4>2 DEF ChanType
      <4> QED
        BY <2>2, <3>3, <4>1, <4>3
    <3> QED
      BY <1>2, <3>2, <3>3
  <2>6. \A f \in Ends \ {e} : req'[f] = req[f] /\ rep'[f] = rep[f] /\ sent'[f] = sent[f] /\ got'[f] = got[f]
    BY <1>2, <2>4, <2>5
  <2>7. /\ status' \in [Nodes -> Statuses] /\ prog' \in [Nodes -> Seq(SUBSET Calls)]
        /\ \A m \in Nodes : m # n => status'[m] = status[m] /\ prog'[m] = prog[m]
        /\ status'[n] \in {"run", "dead"}
    <3>1. "run" \in Statuses
      BY DEF Statuses
    <3> QED
      BY <1>2, <2>1, <3>1, DiesType, GoesType
  <2>8. ChanType'
    BY <1>2, <2>1, <2>4, <2>5, <2>7 DEF ChanType
  <2>9. ASSUME NEW f \in Ends PROVE WireOK(f)'
    <3>1. CASE f = e
      <4>1. CASE rep'[e] = None
        BY <2>4, <3>1, <4>1 DEF WireOK
      <4>2. CASE sdata > 0 /\ rep'[e] = sdata /\ sent'[e] = Append(got[e], sdata)
        <5>1. sdata \in 1 .. MaxSize /\ got'[e] = got[e]
          BY <1>2, <2>1, <2>3, <4>2
        <5> QED
          BY <2>4, <3>1, <4>2, <5>1 DEF WireOK
      <4> QED
        BY <2>5, <4>1, <4>2
    <3>2. CASE f # e
      BY <2>6, <3>2, OtherChannels DEF ChanInv
    <3> QED
      BY <3>1, <3>2
  <2>10. \A s \in Rows(n) : s.fmode = "r" => s.endpoint # e
    BY <1>2, <2>1 DEF ChanInv, ReaderOK, Quiet
  <2>11. ReaderOK(n)'
    <3>1. ASSUME NEW s \in Rows(n), s.fmode = "r"
          PROVE  Quiet(s.endpoint)'
      <4>1. s.endpoint # e /\ s.endpoint \in Ends
        BY <2>10, <3>1, EndpointOfRow
      <4>2. Quiet(s.endpoint)
        BY <2>1, <3>1 DEF ChanInv, ReaderOK
      <4> QED
        BY <2>6, <4>1, <4>2, OtherChannels
    <3> QED
      BY <2>7, <3>1 DEF ReaderOK
  <2>12. ASSUME NEW m \in Nodes, m # n PROVE ReaderOK(m)'
    <3>1. CASE \A s \in Rows(m) : s.fmode = "r" => s.endpoint # e
      <4> HIDE DEF e
      <4> QED
        BY <2>1, <2>6, <2>7, <2>12, <3>1, OtherNodes
    <3>2. ASSUME NEW s \in Rows(m), s.fmode = "r", s.endpoint = e
          PROVE  ReaderOK(m)'
      <4>1. ~Quiet(e) /\ ReaderOK(m) /\ status'[m] = status[m] /\ prog'[m] = prog[m]
        BY <1>2, <2>7, <2>12 DEF Quiet, ChanInv
      <4>2. status[m] # "run"
        BY <3>2, <4>1 DEF ReaderOK
      <4>3. ASSUME NEW d \in Calls, Waits(m, d)
            PROVE  Waits(m, d)'
        <5>1. s.fd = d.fd /\ d.size \in Nat
          BY <3>2, <4>1, <4>3, NetworkAssumption DEF Waits, Calls
        <5>2. req[e] = d.size
          BY <1>2, <3>2, <4>3, <5>1 DEF Waits, Asked
        <5>3. Asked(e, d)'
          BY <2>3, <2>4, <2>5, <5>1, <5>2 DEF Asked
        <5>4. ASSUME NEW t \in Rows(m), t.fd = d.fd
              PROVE  t.fmode = "r" /\ Asked(t.endpoint, d)'
          BY <3>2, <5>1, <5>3, <5>4, OneRow
        <5>5. ASSUME NEW t \in Rows(m), t.fmode = "r", t.fd # d.fd
              PROVE  Quiet(t.endpoint)'
          <6>1. t.endpoint # e /\ t.endpoint \in Ends
            BY <3>2, <5>1, <5>5, OneReader, EndpointOfRow
          <6>2. Quiet(t.endpoint)
            BY <4>3, <5>5 DEF Waits
          <6> QED
            BY <2>6, <6>1, <6>2, OtherChannels
        <5> QED
          BY <4>1, <4>3, <5>4, <5>5 DEF Waits
      <4> QED
        BY <4>1, <4>2, <4>3 DEF ReaderOK
    <3> QED
      BY <3>1, <3>2
  <2>13. UNCHANGED <<sent, got>> \/ Channels!Write(e)
    <3>1. CASE sdata > 0 /\ sent' = [sent EXCEPT ![e] = Append(@, sdata)]
      <4>1. sdata \in 1 .. MaxSize
        BY <2>1, <2>3, <3>1
      <4> QED
        BY <1>2, <2>2, <3>1, <4>1 DEF Channels!Write
    <3> QED
      BY <1>2, <2>5, <3>1
  <2> QED
    BY <2>1, <2>8, <2>9, <2>11, <2>12, <2>13 DEF ChanInv
<1> QED
  BY <1>1, <1>2 DEF Write

LEMMA ChanNext ==
  ChanInv /\ [Next]_vars => ChanInv' /\ [Channels!Next]_(Channels!vars)
<1> SUFFICES ASSUME ChanInv, [Next]_vars
             PROVE  ChanInv' /\ [Channels!Next]_(Channels!vars)
  OBVIOUS
<1>1. UNCHANGED <<sent, got>> => UNCHANGED Channels!vars
  BY DEF Channels!vars
<1>2. ASSUME NEW n \in Nodes, Step(n)
      PROVE  ChanInv' /\ [Channels!Next]_(Channels!vars)
  <2>1. PICK c \in Head(prog[n]) :
          \/ InitNetworking(n, c) \/ InitPool(n, c) \/ Open(n, c) \/ Close(n, c)
          \/ TermNetworking(n, c) \/ Read(n, c) \/ Receive(n, c) \/ Write(n, c)
    BY <1>2 DEF Step
  <2>2. prog[n] # <<>> /\ prog[n] \in Seq(SUBSET Calls)
    BY <1>2 DEF Step, ChanInv, ChanType
  <2>3. c \in Calls
    BY <2>1, <2>2, HeadTailProperties
  <2>4. CASE \/ InitNetworking(n, c) \/ InitPool(n, c) \/ Open(n, c) \/ Close(n, c)
             \/ TermNetworking(n, c)
    BY <1>1, <2>2, <2>4, HousekeepingChan
  <2>5. CASE Read(n, c)
    BY <1>1, <2>2, <2>3, <2>5, ReadChan
  <2>6. CASE Receive(n, c)
    BY <2>2, <2>3, <2>6, ReceiveChan DEF Channels!Next
  <2>7. CASE Write(n, c)
    BY <1>1, <2>2, <2>3, <2>7, WriteChan DEF Channels!Next
  <2> QED
    BY <2>1, <2>4, <2>5, <2>6, <2>7
<1>3. ASSUME NEW e \in Ends, Lose(e)
      PROVE  ChanInv' /\ [Channels!Next]_(Channels!vars)
  BY <1>1, <1>3, LoseChan
<1>4. CASE UNCHANGED vars
  <2>1. UNCHANGED <<status, prog, req, rep, sent, got>>
    BY <1>4 DEF vars, wire
  <2>2. /\ status' \in [Nodes -> Statuses] /\ prog' \in [Nodes -> Seq(SUBSET Calls)]
        /\ req' \in [Ends -> 0 .. MaxSize \union {None}] /\ rep' \in [Ends -> Int]
        /\ \A e \in Ends : req'[e] \in {req[e], None} /\ rep'[e] \in {rep[e], None}
        /\ \A m \in Nodes : status'[m] = status[m] /\ prog'[m] = prog[m]
    BY <2>1 DEF ChanInv, ChanType
  <2>3. ChanInv'
    BY <2>1, <2>2, NothingSent
  <2> QED
    BY <1>1, <2>1, <2>3
<1> QED
  BY <1>2, <1>3, <1>4 DEF Next

LEMMA ChanInit ==
  Init => ChanInv /\ Channels!Init
<1> SUFFICES ASSUME Init PROVE ChanInv /\ Channels!Init
  OBVIOUS
<1>1. ChanType
  BY NetworkAssumption, EmptySeq DEF Init, ChanType, Statuses, None
<1>2. \A e \in Ends : Quiet(e)
  BY DEF Init, Quiet
<1>3. \A e \in Ends : WireOK(e)
  BY <1>2 DEF WireOK, Quiet
<1>4. \A n \in Nodes : ReaderOK(n)
  BY <1>2, EndpointOfRow DEF Init, ReaderOK
<1> QED
  BY <1>1, <1>3, <1>4 DEF ChanInv, Init, Channels!Init

\* Whatever the programs do and whatever fails, a channel carries each
\* transfer whole, in order and once: the REQ/REP exchange of commf_read and
\* commf_write implements the pipe of CommFile.
THEOREM ChannelsImplemented ==
  Spec => ImplementsChannels
BY ChanInit, ChanNext, PTL DEF Spec, ImplementsChannels, Channels!Spec
=============================================================================
