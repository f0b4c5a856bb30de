------------------------ MODULE TaskEventStreamProofs ------------------------
(***************************************************************************)
(* Exactly-once delivery of the task event stream, for every page limit    *)
(* and any number of broken connections and reconnects.                    *)
(***************************************************************************)
EXTENDS TaskEventStream, TLAPS

\* What the client has is the log's prefix up to its Last-Event-ID.
Counted ==
    /\ lastEventId = Len(received)
    /\ \A i \in 1..Len(received) : received[i] = i

\* What is on the wire continues it, up to the generator's cursor.
OnTheWire ==
    client = "follow" =>
        /\ cursor = lastEventId + Len(wire)
        /\ \A i \in 1..Len(wire) : wire[i] = lastEventId + i

\* A page that was read continues the cursor, and stays the next one although
\* the log grows.
PageNext ==
    conn \in {"snapshot", "ready"} =>
        /\ cursor + Len(page) <= Len(log)
        /\ \A i \in 1..Len(page) : page[i] = cursor + i

\* Between two connections nothing is under way, and a client that means to
\* reconnect has an attempt left.
Quiet ==
    /\ client # "follow" => conn = "none" /\ wire = <<>>
    /\ client = "between" => reconnects < MaxReconnects

StreamInv == TypeOK /\ Counted /\ OnTheWire /\ PageNext /\ Quiet

USE StreamAssumption

-----------------------------------------------------------------------------
(* Sequences of numbers below a bound that only grows.                     *)

\* Appending to the log keeps every sequence of its positions one.
LEMMA AppendKind ==
    ASSUME NEW kind \in Kinds, log \in Seq(Kinds), append_task_event(kind)
    PROVE  /\ log' \in Seq(Kinds)
           /\ Len(log) \in Nat
           /\ Len(log') = Len(log) + 1
  BY DEF append_task_event

\* A sequence of positions of a log is one of any longer log.
LEMMA Widen ==
    ASSUME NEW m \in Nat, NEW n \in Nat, m <= n, NEW s \in Seq(1..m)
    PROVE  s \in Seq(1..n)
  <1>1. Len(s) \in Nat /\ s \in [1..Len(s) -> 1..m]
    OBVIOUS
  <1>2. s \in [1..Len(s) -> 1..n]
    BY <1>1
  <1> QED
    BY <1>1, <1>2

\* The page a read returns: the events after the cursor, at most PageLimit.
LEMMA PageRead ==
    ASSUME log \in Seq(Kinds), cursor \in 0..Len(log)
    PROVE  /\ list_task_events \in Seq(1..Len(log))
           /\ cursor + Len(list_task_events) <= Len(log)
           /\ \A i \in 1..Len(list_task_events) : list_task_events[i] = cursor + i
  <1> DEFINE n == IF Len(log) - cursor < PageLimit THEN Len(log) - cursor ELSE PageLimit
  <1>1. n \in Nat /\ cursor + n <= Len(log) /\ Len(log) \in Nat /\ cursor \in Nat
    OBVIOUS
  <1>2. list_task_events = [i \in 1..n |-> cursor + i]
    BY DEF list_task_events
  <1> HIDE DEF n
  <1>3. \A i \in 1..n : cursor + i \in 1..Len(log)
    BY <1>1
  <1>4. list_task_events \in Seq(1..Len(log)) /\ Len(list_task_events) = n
    BY <1>1, <1>2, <1>3
  <1> QED
    BY <1>1, <1>2, <1>4

-----------------------------------------------------------------------------
(* The steps.                                                              *)

LEMMA InitStream == Init => StreamInv
  <1> SUFFICES ASSUME Init
               PROVE  StreamInv
    OBVIOUS
  <1>1. log \in Seq(Kinds) /\ Len(log) = 2
    BY DEF Init, Kinds
  <1>2. page = <<>> /\ wire = <<>> /\ received = <<>> /\ <<>> \in Seq(1..Len(log))
    BY DEF Init
  <1>3. TypeOK
    <2>1. /\ page \in Seq(1..Len(log))
          /\ wire \in Seq(1..Len(log))
          /\ received \in Seq(1..Len(log))
      BY ONLY <1>2
    <2>2. cursor \in 0..Len(log) /\ lastEventId \in 0..Len(log)
      BY <1>1 DEF Init
    <2>3. reconnects \in 0..MaxReconnects /\ drops \in 0..MaxDrops
      BY StreamAssumption DEF Init
    <2> QED
      BY <1>1, <2>1, <2>2, <2>3 DEF Init, TypeOK
  <1>4. Counted /\ OnTheWire /\ PageNext /\ Quiet
    BY <1>2 DEF Init, Counted, OnTheWire, PageNext, Quiet
  <1> QED
    BY <1>3, <1>4 DEF StreamInv

\* A commit of a writer: the log grows, only the rows change.
LEMMA CommitStep ==
    ASSUME StreamInv, NEW kind \in Kinds, append_task_event(kind),
           UNCHANGED <<server, wire, browser>>,
           status' \in Resting \cup {"queued", "running"},
           cancelRequested' \in BOOLEAN,
           pausing' \in {"no", "checkpoint", "cards"}
    PROVE  StreamInv'
  <1> USE DEF server, browser
  <1>1. /\ log' \in Seq(Kinds)
        /\ Len(log) \in Nat
        /\ Len(log') = Len(log) + 1
    BY AppendKind DEF StreamInv, TypeOK
  <1>2. Len(log') \in Nat /\ Len(log) <= Len(log')
    BY <1>1
  <1>3. /\ page \in Seq(1..Len(log))
        /\ wire \in Seq(1..Len(log))
        /\ received \in Seq(1..Len(log))
    BY DEF StreamInv, TypeOK
  <1>4. /\ page \in Seq(1..Len(log'))
        /\ wire \in Seq(1..Len(log'))
        /\ received \in Seq(1..Len(log'))
    BY ONLY <1>1, <1>2, <1>3, Widen
  <1>5. TypeOK'
    BY <1>1, <1>4 DEF StreamInv, TypeOK
  <1>6. Counted' /\ OnTheWire' /\ Quiet'
    BY DEF StreamInv, Counted, OnTheWire, Quiet
  <1>7. PageNext'
    BY <1>1, <1>3 DEF StreamInv, TypeOK, PageNext
  <1> QED
    BY <1>5, <1>6, <1>7 DEF StreamInv

LEMMA WriterStep ==
    ASSUME StreamInv, Writers \/ Pausing
    PROVE  StreamInv'
  <1> USE DEF Kinds, Resting, Terminal
  <1> DEFINE Commit == /\ \E kind \in Kinds : append_task_event(kind)
                       /\ UNCHANGED <<server, wire, browser>>
                       /\ status' \in Resting \cup {"queued", "running"}
                       /\ cancelRequested' \in BOOLEAN
                       /\ pausing' \in {"no", "checkpoint", "cards"}
  <1>0. /\ status \in Resting \cup {"queued", "running"}
        /\ cancelRequested \in BOOLEAN
        /\ pausing \in {"no", "checkpoint", "cards"}
    BY DEF StreamInv, TypeOK
  <1>1. CASE claim_task
    <2>1. Commit
      BY <1>0, <1>1 DEF claim_task
    <2> QED
      BY ONLY <2>1, StreamInv, CommitStep
  <1>2. CASE progress
    <2>1. Commit
      BY <1>0, <1>2 DEF progress
    <2> QED
      BY ONLY <2>1, StreamInv, CommitStep
  <1>3. CASE cancel_task
    <2>1. Commit
      BY <1>0, <1>3 DEF cancel_task
    <2> QED
      BY ONLY <2>1, StreamInv, CommitStep
  <1>4. CASE retry_task
    <2>1. Commit
      BY <1>0, <1>4 DEF retry_task
    <2> QED
      BY ONLY <2>1, StreamInv, CommitStep
  <1>5. CASE finish_failed
    <2>1. Commit
      BY <1>0, <1>5 DEF finish_failed
    <2> QED
      BY ONLY <2>1, StreamInv, CommitStep
  <1>6. CASE complete_task_with_message
    <2>1. Commit
      BY <1>0, <1>6 DEF complete_task_with_message
    <2> QED
      BY ONLY <2>1, StreamInv, CommitStep
  <1>7. CASE save_checkpoint
    <2>1. Commit
      BY <1>0, <1>7 DEF save_checkpoint
    <2> QED
      BY ONLY <2>1, StreamInv, CommitStep
  <1>8. CASE approval_required
    <2>1. Commit
      BY <1>0, <1>8 DEF approval_required
    <2> QED
      BY ONLY <2>1, StreamInv, CommitStep
  <1>9. CASE task_paused
    <2>1. Commit
      BY <1>0, <1>9 DEF task_paused
    <2> QED
      BY ONLY <2>1, StreamInv, CommitStep
  <1> QED
    BY <1>1, <1>2, <1>3, <1>4, <1>5, <1>6, <1>7, <1>8, <1>9 DEF Writers, Pausing

LEMMA ReadEventsStep ==
    ASSUME StreamInv, ReadEvents
    PROVE  StreamInv'
  <1> USE DEF db, browser
  <1>1. /\ page' = list_task_events /\ conn' = "snapshot" /\ conn = "events"
        /\ UNCHANGED <<db, cursor, seen, wire, browser>>
    BY DEF ReadEvents
  <1>2. log \in Seq(Kinds) /\ cursor \in 0..Len(log)
    BY DEF StreamInv, TypeOK
  <1>3. /\ page' \in Seq(1..Len(log))
        /\ cursor + Len(page') <= Len(log)
        /\ \A i \in 1..Len(page') : page'[i] = cursor + i
    <2>1. /\ list_task_events \in Seq(1..Len(log))
          /\ cursor + Len(list_task_events) <= Len(log)
          /\ \A i \in 1..Len(list_task_events) : list_task_events[i] = cursor + i
      BY ONLY <1>2, PageRead
    <2> QED
      BY ONLY <1>1, <2>1
  <1>4. TypeOK'
    BY <1>1, <1>3 DEF StreamInv, TypeOK
  <1>5. PageNext'
    BY <1>1, <1>3 DEF PageNext
  <1>6. Counted' /\ OnTheWire' /\ Quiet'
    BY <1>1 DEF StreamInv, Counted, OnTheWire, Quiet
  <1> QED
    BY <1>4, <1>5, <1>6 DEF StreamInv

\* The page read becomes the end of the wire.
LEMMA DeliverStep ==
    ASSUME StreamInv, Deliver
    PROVE  StreamInv'
  <1>1. /\ page # <<>> /\ conn = "ready" /\ wire' = wire \o page
        /\ cursor' = page[Len(page)] /\ conn' = "events"
        /\ UNCHANGED <<log, status, cancelRequested, pausing, page, seen, client,
                       lastEventId, received, flags, reconnects, drops>>
    BY DEF Deliver, db, browser
  <1>2. /\ log \in Seq(Kinds) /\ Len(log) \in Nat
        /\ page \in Seq(1..Len(log)) /\ wire \in Seq(1..Len(log))
        /\ cursor \in Nat /\ lastEventId \in Nat
    BY DEF StreamInv, TypeOK
  <1>3. /\ Len(page) \in Nat \ {0}
        /\ \A i \in 1..Len(page) : page[i] = cursor + i
        /\ cursor + Len(page) <= Len(log)
    BY <1>1, <1>2 DEF StreamInv, PageNext
  <1>4. cursor' = cursor + Len(page)
    BY <1>1, <1>3
  <1>5. client = "follow"
    BY <1>1 DEF StreamInv, TypeOK, Quiet
  <1>6. /\ Len(wire) \in Nat /\ cursor = lastEventId + Len(wire)
        /\ \A i \in 1..Len(wire) : wire[i] = lastEventId + i
    BY <1>2, <1>5 DEF StreamInv, OnTheWire
  <1>7. /\ wire' \in Seq(1..Len(log))
        /\ Len(wire') = Len(wire) + Len(page)
        /\ \A i \in 1..Len(wire') :
              wire'[i] = IF i <= Len(wire) THEN wire[i] ELSE page[i - Len(wire)]
    BY <1>1, <1>2
  <1>8. TypeOK'
    BY <1>1, <1>2, <1>3, <1>4, <1>7 DEF StreamInv, TypeOK
  <1>9. \A i \in 1..Len(wire') : wire'[i] = lastEventId + i
    <2> TAKE i \in 1..Len(wire')
    <2>1. CASE i <= Len(wire)
      <3>1. i \in 1..Len(wire) /\ wire'[i] = wire[i]
        BY <2>1, <1>6, <1>7
      <3> QED
        BY <3>1, <1>6
    <2>2. CASE i > Len(wire)
      <3>1. i - Len(wire) \in 1..Len(page)
        BY <2>2, <1>3, <1>6, <1>7
      <3>2. wire'[i] = page[i - Len(wire)]
        BY <2>2, <1>6, <1>7
      <3>3. page[i - Len(wire)] = cursor + (i - Len(wire))
        BY <3>1, <1>3
      <3> QED
        BY <3>2, <3>3, <1>2, <1>6
    <2> QED
      BY <2>1, <2>2, <1>6
  <1>10. OnTheWire'
    BY <1>1, <1>2, <1>3, <1>4, <1>6, <1>7, <1>9 DEF OnTheWire
  <1>11. Counted' /\ PageNext' /\ Quiet'
    BY <1>1, <1>5 DEF StreamInv, Counted, PageNext, Quiet
  <1> QED
    BY <1>8, <1>10, <1>11 DEF StreamInv

\* The generator's other steps move no event.
LEMMA IdleStep ==
    ASSUME StreamInv, ReadSnapshot \/ Close \/ Poll
    PROVE  StreamInv'
  <1>1. /\ conn # "none" /\ conn' \in {"ready", "closed", "events"}
        /\ conn' = "ready" => conn = "snapshot"
        /\ seen' \in {seen, status}
        /\ UNCHANGED <<db, cursor, page, wire, browser>>
    BY DEF ReadSnapshot, Close, Poll
  <1>2. TypeOK'
    BY <1>1 DEF StreamInv, TypeOK, db, browser
  <1>3. Counted' /\ OnTheWire' /\ PageNext' /\ Quiet'
    BY <1>1 DEF StreamInv, Counted, OnTheWire, PageNext, Quiet, db, browser
  <1> QED
    BY <1>2, <1>3 DEF StreamInv

\* The client takes the next event: its position is one more than it has.
LEMMA ReceiveStep ==
    ASSUME StreamInv, Receive
    PROVE  StreamInv'
  <1>1. /\ client = "follow" /\ wire # <<>>
        /\ lastEventId' = Head(wire)
        /\ received' = Append(received, Head(wire))
        /\ wire' = Tail(wire)
        /\ flags' = flags \cup Note(log[Head(wire)])
        /\ UNCHANGED <<log, status, cancelRequested, pausing, conn, cursor, page,
                       seen, client, reconnects, drops>>
    BY DEF Receive, db, server
  <1>2. /\ wire \in Seq(1..Len(log)) /\ received \in Seq(1..Len(log))
        /\ lastEventId \in Nat /\ cursor \in Nat /\ Len(log) \in Nat
    BY DEF StreamInv, TypeOK
  <1>3. /\ lastEventId = Len(received) /\ cursor = lastEventId + Len(wire)
        /\ \A i \in 1..Len(wire) : wire[i] = lastEventId + i
        /\ \A i \in 1..Len(received) : received[i] = i
    BY <1>1 DEF StreamInv, Counted, OnTheWire
  <1>4. /\ Head(wire) \in 1..Len(log) /\ Head(wire) = lastEventId + 1
        /\ Len(wire) \in Nat \ {0}
    BY <1>1, <1>2, <1>3
  <1>5. /\ wire' \in Seq(1..Len(log)) /\ Len(wire') = Len(wire) - 1
        /\ \A i \in 1..Len(wire') : wire'[i] = wire[i + 1]
    BY <1>1, <1>2
  <1>6. /\ received' \in Seq(1..Len(log)) /\ Len(received') = Len(received) + 1
        /\ \A i \in 1..Len(received) : received'[i] = received[i]
        /\ received'[Len(received) + 1] = Head(wire)
    BY <1>1, <1>2, <1>4
  <1>7. flags' \subseteq {"finished", "paused", "error"}
    BY <1>1 DEF StreamInv, TypeOK, Note
  <1>8. TypeOK'
    BY <1>1, <1>2, <1>4, <1>5, <1>6, <1>7 DEF StreamInv, TypeOK
  <1>9. Counted'
    BY <1>1, <1>2, <1>3, <1>4, <1>6 DEF Counted
  <1>10. OnTheWire'
    <2>1. cursor' = lastEventId' + Len(wire')
      BY <1>1, <1>2, <1>3, <1>4, <1>5
    <2>2. ASSUME NEW i \in 1..Len(wire')
          PROVE  wire'[i] = lastEventId' + i
      <3>1. i \in Nat /\ i + 1 \in 1..Len(wire)
        BY <1>4, <1>5
      <3>2. wire'[i] = wire[i + 1] /\ wire[i + 1] = lastEventId + (i + 1)
        BY <3>1, <1>3, <1>5
      <3>3. lastEventId' = lastEventId + 1
        BY <1>1, <1>4
      <3> QED
        BY <3>1, <3>2, <3>3, <1>2
    <2> QED
      BY <2>1, <2>2 DEF OnTheWire
  <1>11. PageNext' /\ Quiet'
    BY <1>1 DEF StreamInv, PageNext, Quiet
  <1> QED
    BY <1>8, <1>9, <1>10, <1>11 DEF StreamInv

\* A connection ends, whether closed or broken: nothing stays under way.
LEMMA EndStep ==
    ASSUME StreamInv, StreamEnds \/ Drop
    PROVE  StreamInv'
  <1>1. /\ conn' = "none" /\ wire' = <<>>
        /\ client' \in {"ok", "failed", "between"}
        /\ client' = "between" => reconnects # MaxReconnects
        /\ drops' \in 0..MaxDrops
        /\ UNCHANGED <<log, status, cancelRequested, pausing, cursor, page, seen,
                       lastEventId, received, flags, reconnects>>
    <2>1. drops \in 0..MaxDrops
      BY DEF StreamInv, TypeOK
    <2>2. CASE StreamEnds
      BY <2>1, <2>2 DEF StreamEnds, AfterEnd, db
    <2>3. CASE Drop
      BY <2>1, <2>3 DEF Drop, AfterEnd, db
    <2> QED
      BY <2>2, <2>3
  <1>2. TypeOK'
    BY <1>1 DEF StreamInv, TypeOK
  <1>3. Counted' /\ OnTheWire' /\ PageNext' /\ Quiet'
    BY <1>1 DEF StreamInv, TypeOK, Counted, OnTheWire, PageNext, Quiet
  <1> QED
    BY <1>2, <1>3 DEF StreamInv

LEMMA ReconnectStep ==
    ASSUME StreamInv, Reconnect
    PROVE  StreamInv'
  <1>1. /\ wire = <<>> /\ reconnects < MaxReconnects
    BY DEF StreamInv, Quiet, Reconnect
  <1>2. TypeOK'
    BY <1>1 DEF StreamInv, TypeOK, Reconnect, db
  <1>3. Counted' /\ OnTheWire' /\ PageNext' /\ Quiet'
    BY <1>1 DEF StreamInv, TypeOK, Counted, OnTheWire, PageNext, Quiet, Reconnect, db
  <1> QED
    BY <1>2, <1>3 DEF StreamInv

-----------------------------------------------------------------------------
\* StreamInv is inductive.
THEOREM InductiveStream == StreamInv /\ [Next]_vars => StreamInv'
  <1> SUFFICES ASSUME StreamInv, [Next]_vars
               PROVE  StreamInv'
    OBVIOUS
  <1>1. CASE Writers \/ Pausing
    BY ONLY <1>1, StreamInv, WriterStep
  <1>2. CASE ReadEvents
    BY ONLY <1>2, StreamInv, ReadEventsStep
  <1>3. CASE Deliver
    BY ONLY <1>3, StreamInv, DeliverStep
  <1>4. CASE ReadSnapshot \/ Close \/ Poll
    BY ONLY <1>4, StreamInv, IdleStep
  <1>5. CASE Receive
    BY ONLY <1>5, StreamInv, ReceiveStep
  <1>6. CASE StreamEnds \/ Drop
    BY ONLY <1>6, StreamInv, EndStep
  <1>7. CASE Reconnect
    BY ONLY <1>7, StreamInv, ReconnectStep
  <1>8. CASE UNCHANGED vars
    BY <1>8 DEF vars, db, server, browser, StreamInv, TypeOK, Counted, OnTheWire,
                PageNext, Quiet
  <1> QED
    BY <1>1, <1>2, <1>3, <1>4, <1>5, <1>6, <1>7, <1>8 DEF Next, Generator, Client

\* The log, the generator and the client keep their types.
THEOREM StreamTypeCorrect == Spec => []TypeOK
  <1>1. StreamInv => TypeOK
    BY DEF StreamInv
  <1> QED
    BY InitStream, InductiveStream, <1>1, PTL DEF Spec

\* Whatever the pages, drops and reconnects, the client has every event up to
\* its Last-Event-ID once and in order.
THEOREM DeliveredInOrder == Spec => []ReceivedIsPrefix
  <1>1. StreamInv => ReceivedIsPrefix
    BY DEF StreamInv, TypeOK, Counted, ReceivedIsPrefix
  <1> QED
    BY InitStream, InductiveStream, <1>1, PTL DEF Spec

-----------------------------------------------------------------------------
(* Failures.  A stream that closes too early has missed an event that is   *)
(* in the log by then; the reconnect reads at least that far before it can *)
(* be closed again, so a client that gives up has heard of the end.        *)

Told == \E i \in 1..Len(log) : log[i] \in {"error", "cancelled"}

\* The first n events have the answer or a pause among them.
RestsBy(n) == \E i \in 1..n : log[i] \in {"done", "paused"}
Ended == Told \/ RestsBy(Len(log))

RestIsLogged ==
    /\ Len(log) > 0
    /\ status \in Terminal => Ended
    /\ status = "awaiting_approval" /\ pausing = "no" => Ended

\* What the generator closes on is in the log when it closes.
SeenIsLogged ==
    /\ conn = "ready" /\ seen \in Resting /\ pausing = "no" => Ended
    /\ conn = "closed" => Ended

FlagsAreHeard ==
    /\ \A i \in 1..lastEventId : Note(log[i]) \subseteq flags
    /\ "error" \in flags => Told

\* A page without events comes from the end of the log, which on a later
\* connection is past the event the first one missed.
CaughtUp ==
    (conn \in {"snapshot", "ready"} /\ page = <<>>) \/ conn = "closed" =>
        /\ cursor > 0
        /\ drops = 0 /\ reconnects > 0 => Told \/ RestsBy(cursor)

ReconnectsKnow ==
    drops = 0 /\ (reconnects > 0 \/ client = "between") => Ended

FailInv ==
    /\ RestIsLogged /\ SeenIsLogged /\ FlagsAreHeard /\ CaughtUp /\ ReconnectsKnow
    /\ FailureIsReal

\* FailInv and the types of what it is about.
Heard == StreamInv /\ FailInv

\* The log only grows: what is in it stays.
LEMMA LogGrows ==
    ASSUME log \in Seq(Kinds), NEW kind \in Kinds, append_task_event(kind)
    PROVE  /\ Len(log) \in Nat /\ Len(log') = Len(log) + 1
           /\ \A i \in 1..Len(log) : log'[i] = log[i]
           /\ Told => Told'
           /\ \A n \in 0..Len(log) : RestsBy(n) => \E i \in 1..n : log'[i] \in {"done", "paused"}
           /\ Ended => Ended'
           /\ kind \in {"error", "cancelled", "done", "paused"} => Ended'
  <1>1. /\ Len(log) \in Nat /\ Len(log') = Len(log) + 1
        /\ \A i \in 1..Len(log) : log'[i] = log[i]
        /\ log'[Len(log) + 1] = kind
    BY DEF append_task_event
  <1>2. Told => Told'
    BY <1>1 DEF Told
  <1>3. \A n \in 0..Len(log) : RestsBy(n) => \E i \in 1..n : log'[i] \in {"done", "paused"}
    BY <1>1 DEF RestsBy
  <1>4. Len(log) + 1 \in 1..Len(log')
    BY <1>1
  <1>5. RestsBy(Len(log)) => RestsBy(Len(log))'
    BY <1>1 DEF RestsBy
  <1>6. kind \in {"error", "cancelled"} => Told'
    BY <1>1, <1>4 DEF Told
  <1>7. kind \in {"done", "paused"} => RestsBy(Len(log))'
    BY <1>1, <1>4 DEF RestsBy
  <1> QED
    BY <1>1, <1>2, <1>3, <1>5, <1>6, <1>7 DEF Ended

LEMMA InitHeard == Init => FailInv
  <1> SUFFICES ASSUME Init
               PROVE  FailInv
    OBVIOUS
  <1>1. Len(log) = 2
    BY DEF Init
  <1>2. RestIsLogged /\ SeenIsLogged /\ ReconnectsKnow /\ FailureIsReal /\ CaughtUp
    BY <1>1 DEF Init, RestIsLogged, SeenIsLogged, ReconnectsKnow, FailureIsReal,
                CaughtUp, Terminal, Resting
  <1>3. FlagsAreHeard
    BY DEF Init, FlagsAreHeard
  <1> QED
    BY <1>2, <1>3 DEF FailInv

\* A commit keeps FailInv if the status it leaves is in the log.
LEMMA CommitHeard ==
    ASSUME Heard, NEW kind \in Kinds, append_task_event(kind),
           UNCHANGED <<server, wire, browser>>,
           RestIsLogged',
           conn = "ready" /\ seen \in Resting /\ pausing' = "no" => pausing = "no" \/ Ended'
    PROVE  FailInv'
  <1> USE DEF server, browser
  <1>1. /\ Len(log) \in Nat /\ Len(log') = Len(log) + 1
        /\ \A i \in 1..Len(log) : log'[i] = log[i]
        /\ Told => Told'
        /\ \A n \in 0..Len(log) : RestsBy(n) => \E i \in 1..n : log'[i] \in {"done", "paused"}
        /\ Ended => Ended'
    BY LogGrows DEF Heard, StreamInv, TypeOK
  <1>2. cursor \in 0..Len(log) /\ lastEventId \in 0..Len(log)
    BY DEF Heard, StreamInv, TypeOK
  <1>3. SeenIsLogged'
    BY <1>1 DEF Heard, FailInv, SeenIsLogged
  <1>4. FlagsAreHeard'
    <2>1. \A i \in 1..lastEventId : log'[i] = log[i]
      BY <1>1, <1>2
    <2> QED
      BY <1>1, <2>1 DEF Heard, FailInv, FlagsAreHeard, Note
  <1>5. CaughtUp'
    <2>1. RestsBy(cursor) => RestsBy(cursor)'
      BY <1>1, <1>2 DEF RestsBy
    <2> QED
      BY <1>1, <2>1 DEF Heard, FailInv, CaughtUp
  <1>6. ReconnectsKnow'
    BY <1>1 DEF Heard, FailInv, ReconnectsKnow
  <1>7. FailureIsReal'
    BY <1>1 DEF Heard, FailInv, FailureIsReal, Told
  <1> QED
    BY <1>3, <1>4, <1>5, <1>6, <1>7 DEF FailInv

LEMMA WriterHeard ==
    ASSUME Heard, Writers \/ Pausing
    PROVE  FailInv'
  <1> USE DEF Kinds, Terminal, Resting, LoopFree
  <1> DEFINE Commit(kind) ==
                /\ append_task_event(kind)
                /\ UNCHANGED <<server, wire, browser>>
             Tells(kind) ==
                /\ status' \in Terminal => Ended'
                /\ status' = "awaiting_approval" /\ pausing' = "no" => Ended'
                /\ pausing' = "no" => pausing = "no" \/ Ended'
             Knows(kind) ==
                /\ Len(log') > 0
                /\ Ended => Ended'
                /\ kind \in {"error", "cancelled", "done", "paused"} => Ended'
  <1>1. ASSUME NEW kind \in Kinds, Commit(kind)
        PROVE  Knows(kind)
    BY <1>1, LogGrows DEF Heard, StreamInv, TypeOK
  <1>2. ASSUME NEW kind \in Kinds, Commit(kind), Tells(kind)
        PROVE  FailInv'
    <2>1. RestIsLogged'
      BY <1>1, <1>2 DEF RestIsLogged
    <2> QED
      BY ONLY <1>2, <2>1, Heard, CommitHeard
  <1>3. /\ status \in Terminal => Ended
        /\ status = "awaiting_approval" /\ pausing = "no" => Ended
    BY DEF Heard, FailInv, RestIsLogged
  <1> HIDE DEF Commit, Knows
  <1>4. CASE claim_task
    <2>1. Commit("run_started") /\ status' = "running" /\ pausing = "no"
      BY <1>4 DEF claim_task, Commit
    <2> QED
      BY <1>2, <2>1
  <1>5. CASE progress
    <2>1. Commit("token") /\ status' = status /\ pausing' = pausing
      BY <1>5 DEF progress, Commit
    <2>2. Ended => Ended'
      BY <1>1, <2>1 DEF Knows
    <2> QED
      BY <1>2, <1>3, <2>1, <2>2
  <1>6. CASE cancel_task
    <2>1. Commit("cancelled")
      BY <1>6 DEF cancel_task, Commit
    <2>2. Ended'
      BY <1>1, <2>1 DEF Knows
    <2> QED
      BY <1>2, <2>1, <2>2
  <1>7. CASE retry_task
    <2>1. Commit("retry_scheduled") /\ status' = "queued" /\ pausing = "no"
      BY <1>7 DEF retry_task, Commit
    <2> QED
      BY <1>2, <2>1
  <1>8. CASE finish_failed
    <2>1. Commit("error")
      BY <1>8 DEF finish_failed, Commit
    <2>2. Ended'
      BY <1>1, <2>1 DEF Knows
    <2> QED
      BY <1>2, <2>1, <2>2
  <1>9. CASE complete_task_with_message
    <2>1. Commit("done")
      BY <1>9 DEF complete_task_with_message, Commit
    <2>2. Ended'
      BY <1>1, <2>1 DEF Knows
    <2> QED
      BY <1>2, <2>1, <2>2
  <1>10. CASE save_checkpoint
    <2>1. Commit("checkpoint_saved") /\ status' = "awaiting_approval" /\ pausing' = "checkpoint"
      BY <1>10 DEF save_checkpoint, Commit
    <2> QED
      BY <1>2, <2>1
  <1>11. CASE approval_required
    <2>1. Commit("approval_required") /\ status' = status /\ pausing' = "cards"
      BY <1>11 DEF approval_required, Commit
    <2>2. Ended => Ended'
      BY <1>1, <2>1 DEF Knows
    <2> QED
      BY <1>2, <1>3, <2>1, <2>2
  <1>12. CASE task_paused
    <2>1. Commit("paused")
      BY <1>12 DEF task_paused, Commit
    <2>2. Ended'
      BY <1>1, <2>1 DEF Knows
    <2> QED
      BY <1>2, <2>1, <2>2
  <1> QED
    BY <1>4, <1>5, <1>6, <1>7, <1>8, <1>9, <1>10, <1>11, <1>12 DEF Writers, Pausing

\* A read that finds nothing has reached the end of the log.
LEMMA ReadHeard ==
    ASSUME Heard, ReadEvents
    PROVE  FailInv'
  <1> USE DEF db, browser
  <1>1. /\ page' = list_task_events /\ conn' = "snapshot"
        /\ UNCHANGED <<db, cursor, seen, wire, browser>>
    BY DEF ReadEvents
  <1>2. /\ log \in Seq(Kinds) /\ Len(log) \in Nat /\ cursor \in 0..Len(log) /\ Len(log) > 0
    BY DEF Heard, StreamInv, TypeOK, FailInv, RestIsLogged
  <1>3. page' = <<>> => cursor = Len(log)
    <2> DEFINE n == IF Len(log) - cursor < PageLimit THEN Len(log) - cursor ELSE PageLimit
    <2>1. n \in Nat /\ (n = 0 => cursor = Len(log))
      BY <1>2
    <2>2. list_task_events = [i \in 1..n |-> cursor + i]
      BY DEF list_task_events
    <2> HIDE DEF n
    <2>3. Len(list_task_events) = n
      BY <2>1, <2>2
    <2> QED
      BY <1>1, <2>1, <2>3
  <1>4. CaughtUp'
    <2>1. RestsBy(Len(log)) /\ cursor = Len(log) => RestsBy(cursor)'
      BY <1>1, <1>2 DEF RestsBy
    <2>2. Told => Told'
      BY <1>1 DEF Told
    <2>3. drops = 0 /\ reconnects > 0 => Told \/ RestsBy(Len(log))
      BY DEF Heard, FailInv, ReconnectsKnow, Ended
    <2> QED
      BY <1>1, <1>2, <1>3, <2>1, <2>2, <2>3 DEF CaughtUp
  <1>5. RestIsLogged' /\ SeenIsLogged' /\ FlagsAreHeard' /\ ReconnectsKnow' /\ FailureIsReal'
    BY <1>1 DEF Heard, FailInv, RestIsLogged, SeenIsLogged, FlagsAreHeard, ReconnectsKnow,
                FailureIsReal, Ended, Told, RestsBy
  <1> QED
    BY <1>4, <1>5 DEF FailInv

\* The other steps of the generator.
LEMMA GeneratorHeard ==
    ASSUME Heard, Deliver \/ ReadSnapshot \/ Close \/ Poll
    PROVE  FailInv'
  <1> USE DEF db, browser
  <1>1. UNCHANGED <<db, browser>>
    BY DEF Deliver, ReadSnapshot, Close, Poll
  <1>2. RestIsLogged' /\ FlagsAreHeard' /\ ReconnectsKnow' /\ FailureIsReal'
    BY <1>1 DEF Heard, FailInv, RestIsLogged, FlagsAreHeard, ReconnectsKnow,
                FailureIsReal, Ended, Told, RestsBy
  <1>3. Ended => Ended'
    BY <1>1 DEF Ended, Told, RestsBy
  <1>4. SeenIsLogged'
    <2>1. CASE ReadSnapshot
      <3>1. seen' = status /\ conn' = "ready" /\ pausing' = pausing
        BY <1>1, <2>1 DEF ReadSnapshot
      <3>2. status \in Resting /\ pausing = "no" => Ended
        BY DEF Heard, FailInv, RestIsLogged, Resting
      <3> QED
        BY <1>3, <3>1, <3>2 DEF SeenIsLogged
    <2>2. CASE Close
      <3>1. Ended
        BY <2>2 DEF Close, LoopFree, Heard, FailInv, SeenIsLogged
      <3> QED
        BY <1>3, <2>2, <3>1 DEF SeenIsLogged
    <2>3. CASE Deliver \/ Poll
      BY <2>3 DEF Deliver, Poll, SeenIsLogged
    <2> QED
      BY <2>1, <2>2, <2>3
  <1>5. CaughtUp'
    <2>1. CASE Deliver \/ Poll
      BY <2>1 DEF Deliver, Poll, CaughtUp
    <2>2. CASE ReadSnapshot \/ Close
      <3>1. /\ conn \in {"snapshot", "ready"} /\ conn' \in {"ready", "closed"}
            /\ conn' = "closed" => page = <<>>
            /\ UNCHANGED <<cursor, page, drops, reconnects, log>>
        BY <1>1, <2>2 DEF ReadSnapshot, Close
      <3> QED
        BY <3>1 DEF Heard, FailInv, CaughtUp, Told, RestsBy
    <2> QED
      BY <2>1, <2>2
  <1> QED
    BY <1>2, <1>4, <1>5 DEF FailInv

\* The client notes what it hears.
LEMMA ReceiveHeard ==
    ASSUME Heard, Receive
    PROVE  FailInv'
  <1>1. /\ client = "follow" /\ wire # <<>>
        /\ lastEventId' = Head(wire)
        /\ flags' = flags \cup Note(log[Head(wire)])
        /\ UNCHANGED <<log, status, pausing, conn, cursor, page, seen, client, reconnects, drops>>
    BY DEF Receive, db, server
  <1>2. /\ wire \in Seq(1..Len(log)) /\ Len(log) \in Nat /\ lastEventId \in Nat
        /\ \A i \in 1..Len(wire) : wire[i] = lastEventId + i
    BY <1>1 DEF Heard, StreamInv, TypeOK, OnTheWire
  <1>3. Head(wire) \in 1..Len(log) /\ Head(wire) = lastEventId + 1
    BY <1>1, <1>2
  <1>4. \A i \in 1..lastEventId' : Note(log'[i]) \subseteq flags'
    <2>1. ASSUME NEW i \in 1..lastEventId'
          PROVE  i \in 1..lastEventId \/ i = Head(wire)
      BY <1>1, <1>2, <1>3
    <2>2. \A i \in 1..lastEventId : Note(log[i]) \subseteq flags
      BY DEF Heard, FailInv, FlagsAreHeard
    <2> QED
      BY <1>1, <2>1, <2>2
  <1>5. "error" \in flags' => Told'
    <2>1. "error" \in flags => Told
      BY DEF Heard, FailInv, FlagsAreHeard
    <2>2. "error" \in Note(log[Head(wire)]) => log[Head(wire)] = "error"
      BY DEF Note
    <2> QED
      BY <1>1, <1>3, <2>1, <2>2 DEF Told
  <1>6. FlagsAreHeard'
    BY <1>4, <1>5 DEF FlagsAreHeard
  <1>7. RestIsLogged' /\ SeenIsLogged' /\ CaughtUp' /\ ReconnectsKnow' /\ FailureIsReal'
    BY <1>1 DEF Heard, FailInv, RestIsLogged, SeenIsLogged, CaughtUp, ReconnectsKnow,
                FailureIsReal, Ended, Told, RestsBy
  <1> QED
    BY <1>6, <1>7 DEF FailInv

\* A stream that has ended in order has been heard to its end: a client that
\* fails on it has an attempt behind it, or was told of the failure.
LEMMA EndHeard ==
    ASSUME Heard, MaxReconnects > 0, StreamEnds
    PROVE  FailInv'
  <1>1. /\ client = "follow" /\ conn = "closed" /\ wire = <<>> /\ conn' = "none" /\ AfterEnd
        /\ UNCHANGED <<log, status, pausing, cursor, page, seen, lastEventId, received,
                       flags, reconnects, drops>>
    BY DEF StreamEnds, db
  <1>2. RestIsLogged' /\ SeenIsLogged' /\ CaughtUp' /\ FlagsAreHeard'
    BY <1>1 DEF Heard, FailInv, RestIsLogged, SeenIsLogged, CaughtUp, FlagsAreHeard,
                Ended, Told, RestsBy
  <1>3. Ended /\ Ended'
    BY <1>1 DEF Heard, FailInv, SeenIsLogged, Ended, Told, RestsBy
  <1>4. ReconnectsKnow'
    BY <1>3 DEF ReconnectsKnow
  <1>5. cursor = lastEventId /\ lastEventId = Len(received)
    BY <1>1 DEF Heard, StreamInv, TypeOK, OnTheWire, Counted
  <1>6. cursor > 0 /\ (drops = 0 /\ reconnects > 0 => Told \/ RestsBy(cursor))
    BY <1>1 DEF Heard, FailInv, CaughtUp
  <1>7. received # <<>>
    BY <1>5, <1>6
  <1>8. Refuted => Told
    BY DEF Refuted, Heard, FailInv, FlagsAreHeard
  <1>9. RestsBy(cursor) => Concluded
    <2>1. \A i \in 1..lastEventId : Note(log[i]) \subseteq flags
      BY DEF Heard, FailInv, FlagsAreHeard
    <2>2. RestsBy(cursor) => \E i \in 1..lastEventId : "finished" \in flags \/ "paused" \in flags
      BY <1>5, <2>1 DEF RestsBy, Note
    <2> QED
      BY <2>2 DEF Concluded
  <1>10. client' = "failed" /\ drops' = 0 => Told
    BY <1>1, <1>6, <1>7, <1>8, <1>9 DEF AfterEnd
  <1>11. FailureIsReal'
    BY <1>1, <1>10 DEF FailureIsReal, Told
  <1> QED
    BY <1>2, <1>4, <1>11 DEF FailInv

LEMMA DropHeard ==
    ASSUME Heard, Drop
    PROVE  FailInv'
  <1>1. /\ conn' = "none" /\ drops' > 0
        /\ UNCHANGED <<log, status, pausing, lastEventId, flags>>
    BY DEF Drop, db, Heard, StreamInv, TypeOK
  <1> QED
    BY <1>1 DEF Heard, FailInv, RestIsLogged, SeenIsLogged, CaughtUp, FlagsAreHeard,
                ReconnectsKnow, FailureIsReal, Ended, Told, RestsBy

LEMMA ReconnectHeard ==
    ASSUME Heard, Reconnect
    PROVE  FailInv'
  <1>1. /\ client = "between" /\ client' = "follow" /\ conn' = "events"
        /\ UNCHANGED <<log, status, pausing, lastEventId, flags, drops>>
    BY DEF Reconnect, db
  <1> QED
    BY <1>1 DEF Heard, FailInv, RestIsLogged, SeenIsLogged, CaughtUp, FlagsAreHeard,
                ReconnectsKnow, FailureIsReal, Ended, Told, RestsBy

LEMMA HeardInductive ==
    ASSUME MaxReconnects > 0
    PROVE  Heard /\ [Next]_vars => Heard'
  <1> SUFFICES ASSUME Heard, [Next]_vars
               PROVE  Heard'
    OBVIOUS
  <1>1. StreamInv'
    BY InductiveStream DEF Heard
  <1>2. FailInv'
    <2>1. CASE Writers \/ Pausing
      BY ONLY <2>1, Heard, WriterHeard
    <2>2. CASE ReadEvents
      BY ONLY <2>2, Heard, ReadHeard
    <2>3. CASE Deliver \/ ReadSnapshot \/ Close \/ Poll
      BY ONLY <2>3, Heard, GeneratorHeard
    <2>4. CASE Receive
      BY ONLY <2>4, Heard, ReceiveHeard
    <2>5. CASE StreamEnds
      BY ONLY <2>5, Heard, EndHeard, MaxReconnects > 0
    <2>6. CASE Drop
      BY ONLY <2>6, Heard, DropHeard
    <2>7. CASE Reconnect
      BY ONLY <2>7, Heard, ReconnectHeard
    <2>8. CASE UNCHANGED vars
      BY <2>8 DEF vars, db, server, browser, Heard, FailInv, RestIsLogged, SeenIsLogged,
                  CaughtUp, FlagsAreHeard, ReconnectsKnow, FailureIsReal, Ended, Told, RestsBy
    <2> QED
      BY <2>1, <2>2, <2>3, <2>4, <2>5, <2>6, <2>7, <2>8 DEF Next, Generator, Client
  <1> QED
    BY <1>1, <1>2 DEF Heard

\* A client that may reconnect at all reports a failure over an unbroken
\* network only if the task failed or was cancelled, however early the
\* generator closed its stream.
THEOREM FailuresAreReal ==
    ASSUME MaxReconnects > 0
    PROVE  Spec => []FailureIsReal
  <1>1. Init => Heard
    BY InitStream, InitHeard DEF Heard
  <1>2. Heard /\ [Next]_vars => Heard'
    BY HeardInductive
  <1>3. Heard => FailureIsReal
    BY DEF Heard, FailInv
  <1> QED
    BY <1>1, <1>2, <1>3, PTL DEF Spec
=============================================================================
