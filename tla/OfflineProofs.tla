--------------------------- MODULE OfflineProofs ---------------------------
(***************************************************************************)
(* RecoveryClosed, ReplayOneBehind and TypeOK of the offline modes for any *)
(* file: every number of frames, sequence numbers, wrap and timeout.       *)
(*                                                                         *)
(* Replay reads the log line by line, so the argument is about what one    *)
(* more line does to a log: to the state that replay reaches at its end    *)
(* (Reaches), to LastWasLate, to CriticalSeen and to the pairing of        *)
(* commands and results.  A frame appends a few lines, each by that one    *)
(* lemma.  The state replay reaches is not a recursive definition but the  *)
(* existence of the states it goes through.                                *)
(***************************************************************************)
EXTENDS Offline, SequenceTheorems, TLAPS

Kinds == {"rx_frame", "checksum_error", "tx_nack", "duplicate", "timeout",
          "state_change", "tx_command", "recovery_result", "tx_ack"}
FrameTypes == {"", "HEARTBEAT", "FAULT_EVENT", "TELEMETRY", "COMMAND", "NACK", "ACK"}
Details == HealthEvent \cup {"", "REQUEST_RECOVERY", "RECOVERY_SUCCESS"}

Line == [kind : Kinds, frame_type : FrameTypes, from_state : HealthState \cup {""},
         to_state : HealthState \cup {""}, detail : Details]

-----------------------------------------------------------------------------
(* What a log says. *)

\* Replay applied to the lines of l goes through the states h.
Passes(l, h) ==
  /\ h \in [0..Len(l) -> HealthState] /\ h[0] = "BOOTING"
  /\ \A i \in 1..Len(l) : h[i] = Apply(h[i - 1], ReplayEvent(h[i - 1], l[i]))

\* Replay of l ends in state q.
Reaches(l, q) == \E h : Passes(l, h) /\ h[Len(l)] = q

Beat(e) == e.kind = "rx_frame" /\ e.frame_type = "HEARTBEAT"
LateAt(l) ==
  \E i \in DOMAIN l : /\ l[i].kind = "tx_command"
                      /\ \A j \in (i + 1)..Len(l) : ~Beat(l[j])
CriticalIn(l) == \E i \in DOMAIN l : l[i].to_state = "SAFE_MODE"

\* Command n of l has its result, result n of l its command.
Matched(l, n) ==
  /\ l[n].kind = "tx_command" => \E j \in DOMAIN l : Closes(l, n, j)
  /\ l[n].kind = "recovery_result" => \E i \in DOMAIN l : Closes(l, i, n)

\* The last command of l waits for its result, everything else is matched.
Opened(l) ==
  \E i \in DOMAIN l :
    /\ l[i].kind = "tx_command"
    /\ \A k \in (i + 1)..Len(l) : l[k].kind \notin {"tx_command", "recovery_result"}
    /\ \A n \in DOMAIN l : n # i => Matched(l, n)

\* The log l leads replay to q, its last heartbeat was late or not, a critical
\* fault was acted on or not, a command waits for its result or not.
Says(l, q, late, critical, open) ==
  /\ l \in Seq(Line)
  /\ Reaches(l, q)
  /\ late = LateAt(l) /\ critical = CriticalIn(l)
  /\ IF open THEN Opened(l) ELSE Paired(l)

-----------------------------------------------------------------------------
(* What one more line does. *)

\* The lines of a log with one more.
LEMMA OneMore ==
  ASSUME NEW l \in Seq(Line), NEW e \in Line
  PROVE  /\ Append(l, e) \in Seq(Line) /\ Len(l) \in Nat
         /\ Len(Append(l, e)) = Len(l) + 1
         /\ DOMAIN l = 1..Len(l) /\ DOMAIN Append(l, e) = 1..(Len(l) + 1)
         /\ \A i \in 1..Len(l) : Append(l, e)[i] = l[i]
         /\ Append(l, e)[Len(l) + 1] = e
PROOF
  BY AppendProperties, LenProperties

\* An event of replay, or none, leads to a state of the machine.
LEMMA ApplyType ==
  ASSUME NEW q \in HealthState, NEW event
  PROVE  Apply(q, event) \in HealthState
PROOF
  BY DEF Apply, HealthState

\* Replay takes one more step.
LEMMA ReachesMore ==
  ASSUME NEW l \in Seq(Line), NEW e \in Line, NEW q, Reaches(l, q)
  PROVE  /\ q \in HealthState
         /\ Reaches(Append(l, e), Apply(q, ReplayEvent(q, e)))
PROOF
  <1>1. PICK h : Passes(l, h) /\ h[Len(l)] = q
    BY DEF Reaches
  <1> DEFINE n == Len(l)
             m == Append(l, e)
             p == Apply(q, ReplayEvent(q, e))
             k == [i \in 0..(n + 1) |-> IF i = n + 1 THEN p ELSE h[i]]
  <1>2. /\ n \in Nat /\ Len(m) = n + 1 /\ m[n + 1] = e
        /\ \A i \in 1..n : m[i] = l[i]
    BY OneMore
  <1>3. /\ h \in [0..n -> HealthState] /\ h[0] = "BOOTING" /\ h[n] = q
        /\ \A i \in 1..n : h[i] = Apply(h[i - 1], ReplayEvent(h[i - 1], l[i]))
    BY <1>1 DEF Passes
  <1>4. q \in HealthState
    BY <1>2, <1>3
  <1>5. p \in HealthState
    BY <1>4, ApplyType
  <1> HIDE DEF m, n, p
  <1>6. k \in [0..(n + 1) -> HealthState] /\ k[0] = "BOOTING" /\ k[n + 1] = p
    BY <1>2, <1>3, <1>5
  <1>7. ASSUME NEW i \in 1..(n + 1)
        PROVE  k[i] = Apply(k[i - 1], ReplayEvent(k[i - 1], m[i]))
    <2>1. CASE i = n + 1
      <3>1. k[i - 1] = q /\ k[i] = p /\ m[i] = e
        BY <1>2, <1>3, <2>1
      <3> QED
        BY <3>1 DEF p
    <2>2. CASE i # n + 1
      <3>1. i \in 1..n /\ i - 1 \in 0..n /\ i - 1 # n + 1
        BY <1>2, <2>2
      <3>2. k[i - 1] = h[i - 1] /\ k[i] = h[i] /\ m[i] = l[i]
        BY <1>2, <2>2, <3>1
      <3> QED
        BY <1>3, <3>1, <3>2
    <2> QED
      BY <2>1, <2>2
  <1> HIDE DEF k
  <1>8. Passes(m, k) /\ k[Len(m)] = p
    BY <1>2, <1>6, <1>7 DEF Passes
  <1>9. Reaches(m, p)
    BY <1>8 DEF Reaches
  <1> QED
    BY <1>4, <1>9 DEF m, p

\* A command makes the last heartbeat a late one, a heartbeat ends that.
LEMMA LateMore ==
  ASSUME NEW l \in Seq(Line), NEW e \in Line
  PROVE  LateAt(Append(l, e)) = (e.kind = "tx_command" \/ (LateAt(l) /\ ~Beat(e)))
PROOF
  <1> DEFINE n == Len(l)
             m == Append(l, e)
  <1>1. /\ n \in Nat /\ Len(m) = n + 1 /\ m[n + 1] = e
        /\ DOMAIN l = 1..n /\ DOMAIN m = 1..(n + 1)
        /\ \A i \in 1..n : m[i] = l[i]
    BY OneMore
  <1> HIDE DEF m, n
  <1>2. ASSUME LateAt(m) PROVE e.kind = "tx_command" \/ (LateAt(l) /\ ~Beat(e))
    <2>1. PICK i \in 1..(n + 1) : /\ m[i].kind = "tx_command"
                                  /\ \A j \in (i + 1)..(n + 1) : ~Beat(m[j])
      BY <1>1, <1>2 DEF LateAt
    <2>2. CASE i = n + 1
      BY <1>1, <2>1, <2>2
    <2>3. CASE i # n + 1
      <3>1. i \in 1..n /\ n + 1 \in (i + 1)..(n + 1)
        BY <1>1, <2>3
      <3>2. ~Beat(e)
        BY <1>1, <2>1, <3>1
      <3>3. \A j \in (i + 1)..n : j \in (i + 1)..(n + 1) /\ j \in 1..n
        BY <1>1, <3>1
      <3>4. LateAt(l)
        BY <1>1, <2>1, <3>1, <3>3 DEF LateAt, n
      <3> QED
        BY <3>2, <3>4
    <2> QED
      BY <2>2, <2>3
  <1>3. ASSUME e.kind = "tx_command" PROVE LateAt(m)
    <2>1. n + 1 \in DOMAIN m /\ m[n + 1].kind = "tx_command"
          /\ \A j \in ((n + 1) + 1)..Len(m) : ~Beat(m[j])
      BY <1>1, <1>3
    <2> QED
      BY <2>1 DEF LateAt
  <1>4. ASSUME LateAt(l), ~Beat(e) PROVE LateAt(m)
    <2>1. PICK i \in 1..n : l[i].kind = "tx_command" /\ \A j \in (i + 1)..n : ~Beat(l[j])
      BY <1>1, <1>4 DEF LateAt, n
    <2>2. ASSUME NEW j \in (i + 1)..(n + 1) PROVE ~Beat(m[j])
      <3>1. CASE j = n + 1
        BY <1>1, <1>4, <3>1
      <3>2. CASE j # n + 1
        <4>1. j \in (i + 1)..n /\ j \in 1..n
          BY <1>1, <3>2
        <4> QED
          BY <1>1, <2>1, <4>1
      <3> QED
        BY <3>1, <3>2
    <2>3. i \in DOMAIN m /\ m[i].kind = "tx_command"
      BY <1>1, <2>1
    <2> QED
      BY <1>1, <2>2, <2>3 DEF LateAt
  <1>5. LateAt(m) \in BOOLEAN /\ LateAt(l) \in BOOLEAN
    BY DEF LateAt
  <1> QED
    BY <1>2, <1>3, <1>4, <1>5 DEF m

\* A critical fault is in the log once it was acted on.
LEMMA CriticalMore ==
  ASSUME NEW l \in Seq(Line), NEW e \in Line
  PROVE  CriticalIn(Append(l, e)) = (CriticalIn(l) \/ e.to_state = "SAFE_MODE")
PROOF
  <1> DEFINE n == Len(l)
             m == Append(l, e)
  <1>1. /\ n \in Nat /\ m[n + 1] = e
        /\ DOMAIN l = 1..n /\ DOMAIN m = 1..(n + 1)
        /\ \A i \in 1..n : m[i] = l[i]
    BY OneMore
  <1> HIDE DEF m, n
  <1>2. CriticalIn(m) <=> (CriticalIn(l) \/ e.to_state = "SAFE_MODE")
    <2>1. \A i \in 1..n : i \in 1..(n + 1)
      BY <1>1
    <2>2. \A i \in 1..(n + 1) : i = n + 1 \/ i \in 1..n
      BY <1>1
    <2>3. n + 1 \in 1..(n + 1)
      BY <1>1
    <2> QED
      BY <1>1, <2>1, <2>2, <2>3 DEF CriticalIn
  <1> QED
    BY <1>2 DEF m, CriticalIn

\* A pair of lines stays a pair.
LEMMA ClosesMore ==
  ASSUME NEW l \in Seq(Line), NEW e \in Line, NEW i \in DOMAIN l, NEW j \in DOMAIN l,
         Closes(l, i, j)
  PROVE  Closes(Append(l, e), i, j)
PROOF
  <1> DEFINE m == Append(l, e)
  <1>1. /\ Len(l) \in Nat /\ DOMAIN l = 1..Len(l)
        /\ \A k \in 1..Len(l) : m[k] = l[k]
    BY OneMore
  <1> HIDE DEF m
  <1>2. \A k \in (i + 1)..(j - 1) : k \in 1..Len(l)
    BY <1>1
  <1>3. m[i] = l[i] /\ m[j] = l[j]
    BY <1>1
  <1>4. \A k \in (i + 1)..(j - 1) : m[k].kind \notin {"tx_command", "recovery_result"}
    BY <1>1, <1>2 DEF Closes
  <1>5. Closes(m, i, j)
    BY <1>3, <1>4 DEF Closes
  <1> QED
    BY <1>5 DEF m

\* And a matched line stays matched.
LEMMA MatchedMore ==
  ASSUME NEW l \in Seq(Line), NEW e \in Line, NEW n \in DOMAIN l, Matched(l, n)
  PROVE  Matched(Append(l, e), n)
PROOF
  <1> DEFINE m == Append(l, e)
  <1>1. /\ Len(l) \in Nat /\ DOMAIN l = 1..Len(l) /\ DOMAIN m = 1..(Len(l) + 1)
        /\ \A k \in 1..Len(l) : m[k] = l[k]
    BY OneMore
  <1>2. \A i, j \in DOMAIN l : Closes(l, i, j) => Closes(m, i, j)
    BY ClosesMore
  <1> HIDE DEF m
  <1>3. \A i \in DOMAIN l : i \in DOMAIN m
    BY <1>1
  <1>4. m[n] = l[n]
    BY <1>1
  <1>5. Matched(m, n)
    BY <1>2, <1>3, <1>4 DEF Matched
  <1> QED
    BY <1>5 DEF m

\* How a line changes the pairing: a command opens it, its result closes it,
\* and the other lines leave it.
LEMMA PairingMore ==
  ASSUME NEW l \in Seq(Line), NEW e \in Line
  PROVE  /\ Paired(l) /\ e.kind \notin {"tx_command", "recovery_result"}
              => Paired(Append(l, e))
         /\ Opened(l) /\ e.kind \notin {"tx_command", "recovery_result"}
              => Opened(Append(l, e))
         /\ Paired(l) /\ e.kind = "tx_command" => Opened(Append(l, e))
         /\ Opened(l) /\ e.kind = "recovery_result" => Paired(Append(l, e))
PROOF
  <1> DEFINE n == Len(l)
             m == Append(l, e)
  <1>1. /\ n \in Nat /\ Len(m) = n + 1 /\ m[n + 1] = e
        /\ DOMAIN l = 1..n /\ DOMAIN m = 1..(n + 1)
        /\ \A i \in 1..n : m[i] = l[i]
    BY OneMore
  <1>2. \A i \in 1..n : Matched(l, i) => Matched(m, i)
    BY <1>1, MatchedMore
  <1>3. Paired(l) <=> \A i \in 1..n : Matched(l, i)
    BY <1>1 DEF Paired, Matched
  <1>4. Paired(m) <=> \A i \in 1..(n + 1) : Matched(m, i)
    BY <1>1 DEF Paired, Matched
  <1>5. \A i \in 1..(n + 1) : i = n + 1 \/ i \in 1..n
    BY <1>1
  <1>6. n + 1 \in 1..(n + 1) /\ \A i \in 1..n : i \in 1..(n + 1)
    BY <1>1
  <1> HIDE DEF m
  <1>7. e.kind \notin {"tx_command", "recovery_result"} => Matched(m, n + 1)
    BY <1>1 DEF Matched
  <1>8. ASSUME Paired(l), e.kind \notin {"tx_command", "recovery_result"}
        PROVE  Paired(m)
    BY <1>2, <1>3, <1>4, <1>5, <1>7, <1>8
  <1>9. ASSUME Opened(l), e.kind \notin {"tx_command", "recovery_result"}
        PROVE  Opened(m)
    <2>1. PICK i \in 1..n :
            /\ l[i].kind = "tx_command"
            /\ \A k \in (i + 1)..n : l[k].kind \notin {"tx_command", "recovery_result"}
            /\ \A k \in 1..n : k # i => Matched(l, k)
      BY <1>1, <1>9 DEF Opened
    <2>2. ASSUME NEW k \in (i + 1)..(n + 1)
          PROVE  m[k].kind \notin {"tx_command", "recovery_result"}
      <3>1. CASE k = n + 1
        BY <1>1, <1>9, <3>1
      <3>2. CASE k # n + 1
        <4>1. k \in (i + 1)..n /\ k \in 1..n
          BY <1>1, <3>2
        <4> QED
          BY <1>1, <2>1, <4>1
      <3> QED
        BY <3>1, <3>2
    <2>3. \A k \in 1..(n + 1) : k # i => Matched(m, k)
      BY <1>2, <1>5, <1>7, <1>9, <2>1
    <2>4. i \in DOMAIN m /\ m[i].kind = "tx_command"
      BY <1>1, <1>6, <2>1
    <2> QED
      BY <1>1, <2>2, <2>3, <2>4 DEF Opened
  <1>10. ASSUME Paired(l), e.kind = "tx_command"
         PROVE  Opened(m)
    <2>1. \A k \in 1..(n + 1) : k # n + 1 => Matched(m, k)
      BY <1>2, <1>3, <1>5, <1>10
    <2>2. \A k \in ((n + 1) + 1)..(n + 1) :
            m[k].kind \notin {"tx_command", "recovery_result"}
      BY <1>1
    <2> QED
      BY <1>1, <1>6, <1>10, <2>1, <2>2 DEF Opened
  <1>11. ASSUME Opened(l), e.kind = "recovery_result"
         PROVE  Paired(m)
    <2>1. PICK i \in 1..n :
            /\ l[i].kind = "tx_command"
            /\ \A k \in (i + 1)..n : l[k].kind \notin {"tx_command", "recovery_result"}
            /\ \A k \in 1..n : k # i => Matched(l, k)
      BY <1>1, <1>11 DEF Opened
    <2>2. m[i].kind = "tx_command" /\ m[n + 1].kind = "recovery_result" /\ i < n + 1
      BY <1>1, <1>11, <2>1
    <2>3. \A k \in (i + 1)..((n + 1) - 1) : k \in (i + 1)..n /\ k \in 1..n
      BY <1>1
    <2>4. \A k \in (i + 1)..((n + 1) - 1) :
            m[k].kind \notin {"tx_command", "recovery_result"}
      BY <1>1, <2>1, <2>3
    <2>5. Closes(m, i, n + 1)
      BY <2>2, <2>4 DEF Closes
    <2>6. i \in DOMAIN m /\ n + 1 \in DOMAIN m
      BY <1>1, <1>6
    <2>7. Matched(m, i) /\ Matched(m, n + 1)
      BY <2>2, <2>5, <2>6 DEF Matched
    <2> QED
      BY <1>2, <1>4, <1>5, <2>1, <2>7
  <1> QED
    BY <1>8, <1>9, <1>10, <1>11 DEF m

\* What a log says after one more line.
LEMMA SaysMore ==
  ASSUME NEW l, NEW e \in Line, NEW q, NEW late \in BOOLEAN, NEW critical \in BOOLEAN,
         NEW open \in BOOLEAN, Says(l, q, late, critical, open),
         open => e.kind # "tx_command", ~open => e.kind # "recovery_result"
  PROVE  Says(Append(l, e), Apply(q, ReplayEvent(q, e)),
              e.kind = "tx_command" \/ (late /\ ~Beat(e)),
              critical \/ e.to_state = "SAFE_MODE",
              e.kind = "tx_command" \/ (open /\ e.kind # "recovery_result"))
PROOF
  <1>1. /\ l \in Seq(Line) /\ Reaches(l, q)
        /\ late = LateAt(l) /\ critical = CriticalIn(l)
        /\ IF open THEN Opened(l) ELSE Paired(l)
    BY DEF Says
  <1>2. Append(l, e) \in Seq(Line)
    BY <1>1, OneMore
  <1>3. Reaches(Append(l, e), Apply(q, ReplayEvent(q, e)))
    BY <1>1, ReachesMore
  <1>4. LateAt(Append(l, e)) = (e.kind = "tx_command" \/ (late /\ ~Beat(e)))
    BY <1>1, LateMore
  <1>5. CriticalIn(Append(l, e)) = (critical \/ e.to_state = "SAFE_MODE")
    BY <1>1, CriticalMore
  <1>6. IF e.kind = "tx_command" \/ (open /\ e.kind # "recovery_result")
        THEN Opened(Append(l, e)) ELSE Paired(Append(l, e))
    BY <1>1, PairingMore
  <1> QED
    BY <1>2, <1>3, <1>4, <1>5, <1>6 DEF Says

-----------------------------------------------------------------------------
(* The lines of run_mock. *)

\* A line that replay passes over and that is neither command nor result.
Mute(e) ==
  /\ e \in Line /\ e.to_state # "SAFE_MODE"
  /\ \/ e.kind \in {"checksum_error", "tx_nack", "duplicate", "state_change", "tx_ack"}
     \/ e.kind = "rx_frame" /\ e.frame_type # "HEARTBEAT" /\ e.detail = ""

\* Such a line changes nothing.
LEMMA MuteMore ==
  ASSUME NEW l, NEW e, NEW q \in HealthState, NEW late \in BOOLEAN,
         NEW critical \in BOOLEAN, NEW open \in BOOLEAN,
         Says(l, q, late, critical, open), Mute(e)
  PROVE  Says(Append(l, e), q, late, critical, open)
PROOF
  <1>1. e \in Line /\ e.kind # "tx_command" /\ e.kind # "recovery_result" /\ ~Beat(e)
        /\ e.to_state # "SAFE_MODE"
    BY DEF Mute, Beat
  <1>2. ReplayEvent(q, e) = "none"
    BY DEF Mute, ReplayEvent
  <1>3. Apply(q, ReplayEvent(q, e)) = q
    BY <1>2 DEF Apply
  <1>4. /\ late = (e.kind = "tx_command" \/ (late /\ ~Beat(e)))
        /\ critical = (critical \/ e.to_state = "SAFE_MODE")
        /\ open = (e.kind = "tx_command" \/ (open /\ e.kind # "recovery_result"))
    BY <1>1
  <1>5. Says(Append(l, e), Apply(q, ReplayEvent(q, e)),
             e.kind = "tx_command" \/ (late /\ ~Beat(e)),
             critical \/ e.to_state = "SAFE_MODE",
             e.kind = "tx_command" \/ (open /\ e.kind # "recovery_result"))
    BY <1>1, SaysMore
  <1> QED
    BY <1>3, <1>4, <1>5

\* The fields of a line.
LEMMA EventLine ==
  ASSUME NEW k \in Kinds
  PROVE  /\ Event(k) \in Line /\ Event(k).kind = k
         /\ Event(k).to_state = "" /\ Event(k).detail = ""
PROOF
  BY DEF Event, Line, FrameTypes, Details

\* The fields of a line about a frame.
LEMMA FrameLine ==
  ASSUME NEW k \in Kinds, NEW t \in FrameTypes
  PROVE  /\ FrameEvent(k, t) \in Line
         /\ FrameEvent(k, t).kind = k /\ FrameEvent(k, t).frame_type = t
         /\ FrameEvent(k, t).to_state = "" /\ FrameEvent(k, t).detail = ""
PROOF
  <1>1. PICK e \in Line : /\ e = Event(k) /\ e.kind = k /\ e.to_state = "" /\ e.detail = ""
    BY EventLine
  <1>2. FrameEvent(k, t) = [e EXCEPT !.frame_type = t]
    BY <1>1 DEF FrameEvent
  <1> QED
    BY <1>1, <1>2 DEF Line

Command == [FrameEvent("tx_command", "COMMAND") EXCEPT !.detail = "REQUEST_RECOVERY"]
Result == [Event("recovery_result") EXCEPT !.detail = "RECOVERY_SUCCESS"]

\* The lines of a recovery: what is asked, and how it ended.
LEMMA RecoveryLines ==
  /\ Command \in Line /\ Command.kind = "tx_command" /\ Command.to_state = ""
  /\ Command.detail = "REQUEST_RECOVERY"
  /\ Result \in Line /\ Result.kind = "recovery_result" /\ Result.to_state = ""
PROOF
  <1>1. "tx_command" \in Kinds /\ "recovery_result" \in Kinds /\ "COMMAND" \in FrameTypes
        /\ "REQUEST_RECOVERY" \in Details /\ "RECOVERY_SUCCESS" \in Details
    BY DEF Kinds, FrameTypes, Details
  <1>2. PICK c \in Line :
          c = FrameEvent("tx_command", "COMMAND") /\ c.kind = "tx_command" /\ c.to_state = ""
    <2>1. /\ FrameEvent("tx_command", "COMMAND") \in Line
          /\ FrameEvent("tx_command", "COMMAND").kind = "tx_command"
          /\ FrameEvent("tx_command", "COMMAND").to_state = ""
      <3>1. PICK k \in Kinds, t \in FrameTypes : k = "tx_command" /\ t = "COMMAND"
        BY <1>1
      <3>2. FrameEvent(k, t) \in Line /\ FrameEvent(k, t).kind = k /\ FrameEvent(k, t).to_state = ""
        BY FrameLine
      <3> QED
        BY <3>1, <3>2
    <2> QED
      BY <2>1
  <1>3. Command = [c EXCEPT !.detail = "REQUEST_RECOVERY"]
    BY <1>2 DEF Command
  <1>4. /\ Command \in Line /\ Command.kind = "tx_command" /\ Command.to_state = ""
        /\ Command.detail = "REQUEST_RECOVERY"
    BY <1>1, <1>2, <1>3 DEF Line
  <1>5. PICK r \in Line :
          r = Event("recovery_result") /\ r.kind = "recovery_result" /\ r.to_state = ""
    BY <1>1, EventLine
  <1>6. Result = [r EXCEPT !.detail = "RECOVERY_SUCCESS"]
    BY <1>5 DEF Result
  <1>7. Result \in Line /\ Result.kind = "recovery_result" /\ Result.to_state = ""
    BY <1>1, <1>5, <1>6 DEF Line
  <1> QED
    BY <1>4, <1>7

\* The line of a transition.
ChangeLine(state, event) ==
  [Event("state_change") EXCEPT !.from_state = state,
                                !.to_state = Apply(state, event),
                                !.detail = event]

\* The hook writes at most one line, which replay passes over.
LEMMA ChangedLines ==
  ASSUME NEW state \in HealthState, NEW event \in HealthEvent
  PROVE  /\ Changed(state, event) = IF Valid(state, event) THEN <<ChangeLine(state, event)>>
                                                           ELSE <<>>
         /\ ChangeLine(state, event) \in Line
         /\ ChangeLine(state, event).kind = "state_change"
         /\ ChangeLine(state, event).to_state = Apply(state, event)
         /\ Apply(state, event) # "SAFE_MODE" => Mute(ChangeLine(state, event))
PROOF
  <1> DEFINE c == ChangeLine(state, event)
  <1>1. PICK t \in HealthState : t = Apply(state, event)
    BY ApplyType
  <1>2. event \in Details /\ "state_change" \in Kinds
    BY DEF Details, Kinds
  <1>3. c = [Event("state_change") EXCEPT !.from_state = state, !.to_state = t,
                                          !.detail = event]
    BY <1>1 DEF ChangeLine
  <1>4. c \in Line /\ c.kind = "state_change" /\ c.to_state = t
    BY <1>2, <1>3 DEF Line, Event, FrameTypes
  <1>5. Changed(state, event) = IF Valid(state, event) THEN <<c>> ELSE <<>>
    BY DEF Changed, ChangeLine
  <1> HIDE DEF c
  <1>6. t # "SAFE_MODE" => Mute(c)
    BY <1>4 DEF Mute
  <1> QED
    BY <1>1, <1>4, <1>5, <1>6 DEF c

\* A log of one line.
LEMMA OneLine ==
  ASSUME NEW e \in Line
  PROVE  <<e>> \in Seq(Line)
OBVIOUS

\* Lines added one, two or none at a time.
LEMMA Added ==
  ASSUME NEW l \in Seq(Line), NEW a \in Line, NEW b \in Line
  PROVE  /\ l \o <<a>> = Append(l, a) /\ l \o <<>> = l
         /\ Append(l, a) \in Seq(Line)
         /\ l \o (<<a>> \o <<b>>) = Append(Append(l, a), b)
         /\ l \o <<a, b>> = Append(Append(l, a), b)
         /\ <<a>> \o <<>> = <<a>>
PROOF
  <1>1. l \o <<a>> = Append(l, a) /\ Append(l, a) \in Seq(Line)
    BY AppendIsConcat, AppendProperties
  <1>2. l \o <<>> = l /\ <<a>> \o <<>> = <<a>>
    BY ConcatEmptySeq
  <1>3. l \o (<<a>> \o <<b>>) = Append(Append(l, a), b)
    <2>1. <<a>> \in Seq(Line) /\ <<b>> \in Seq(Line)
      OBVIOUS
    <2>2. l \o (<<a>> \o <<b>>) = (l \o <<a>>) \o <<b>>
      BY <2>1, ConcatAssociative
    <2>3. Append(l, a) \o <<b>> = Append(Append(l, a), b)
      BY <1>1, AppendIsConcat
    <2> QED
      BY <1>1, <2>2, <2>3
  <1>4. l \o <<a, b>> = Append(Append(l, a), b)
    <2> DEFINE n == Len(l)
               s == l \o <<a, b>>
               t == Append(Append(l, a), b)
    <2>1. n \in Nat /\ <<a, b>> \in Seq(Line) /\ Len(<<a, b>>) = 2
          /\ <<a, b>>[1] = a /\ <<a, b>>[2] = b
      BY LenProperties
    <2>2. /\ s \in Seq(Line) /\ Len(s) = n + 2
          /\ \A i \in 1..(n + 2) : s[i] = IF i <= n THEN l[i] ELSE <<a, b>>[i - n]
      BY <2>1, ConcatProperties
    <2>3. /\ Append(l, a) \in Seq(Line) /\ Len(Append(l, a)) = n + 1
          /\ \A i \in 1..n : Append(l, a)[i] = l[i]
          /\ Append(l, a)[n + 1] = a
      BY OneMore
    <2>4. /\ t \in Seq(Line) /\ Len(t) = n + 1 + 1
          /\ \A i \in 1..(n + 1) : t[i] = Append(l, a)[i]
          /\ t[n + 1 + 1] = b
      BY <2>3, OneMore
    <2> HIDE DEF s, t, n
    <2>5. ASSUME NEW i \in 1..(n + 2) PROVE s[i] = t[i]
      <3>1. CASE i <= n
        BY <2>1, <2>2, <2>3, <2>4, <3>1
      <3>2. CASE i = n + 1
        BY <2>1, <2>2, <2>3, <2>4, <3>2
      <3>3. CASE i = n + 2
        BY <2>1, <2>2, <2>3, <2>4, <3>3
      <3> QED
        BY <2>1, <3>1, <3>2, <3>3
    <2>6. Len(s) = Len(t)
      BY <2>1, <2>2, <2>4
    <2>7. s = t
      BY <2>2, <2>4, <2>5, <2>6, SeqEqual
    <2> QED
      BY <2>7 DEF s, t
  <1> QED
    BY <1>1, <1>2, <1>3, <1>4

\* The lines about frames that replay passes over.
LEMMA MuteFrame ==
  ASSUME NEW k \in Kinds, NEW t \in FrameTypes,
         \/ k \in {"checksum_error", "tx_nack", "duplicate", "tx_ack"}
         \/ k = "rx_frame" /\ t # "HEARTBEAT"
  PROVE  Mute(FrameEvent(k, t))
PROOF
  <1> DEFINE e == FrameEvent(k, t)
  <1>1. e \in Line /\ e.kind = k /\ e.frame_type = t /\ e.to_state = "" /\ e.detail = ""
    BY FrameLine
  <1> HIDE DEF e
  <1>2. Mute(e)
    BY <1>1 DEF Mute
  <1> QED
    BY <1>2 DEF e

\* The lines of a heartbeat and of a timeout.
LEMMA BeatLines ==
  /\ FrameEvent("rx_frame", "HEARTBEAT") \in Line /\ Beat(FrameEvent("rx_frame", "HEARTBEAT"))
  /\ FrameEvent("rx_frame", "HEARTBEAT").to_state = ""
  /\ FrameEvent("timeout", "HEARTBEAT") \in Line
  /\ FrameEvent("timeout", "HEARTBEAT").kind = "timeout"
  /\ FrameEvent("timeout", "HEARTBEAT").to_state = ""
PROOF
  <1>1. PICK k \in Kinds, j \in Kinds, t \in FrameTypes :
          k = "rx_frame" /\ j = "timeout" /\ t = "HEARTBEAT"
    BY DEF Kinds, FrameTypes
  <1>2. /\ FrameEvent(k, t) \in Line /\ FrameEvent(k, t).kind = k
        /\ FrameEvent(k, t).frame_type = t /\ FrameEvent(k, t).to_state = ""
    BY FrameLine
  <1>3. /\ FrameEvent(j, t) \in Line /\ FrameEvent(j, t).kind = j
        /\ FrameEvent(j, t).to_state = ""
    BY FrameLine
  <1> QED
    BY <1>1, <1>2, <1>3 DEF Beat

\* The line of a heartbeat: replay applies it, and it is the last one so far.
LEMMA HeartbeatMore ==
  ASSUME NEW l, NEW q \in HealthState, NEW late \in BOOLEAN, NEW critical \in BOOLEAN,
         Says(l, q, late, critical, FALSE),
         NEW e \in Line, Beat(e), e.to_state = ""
  PROVE  Says(Append(l, e), Apply(q, HeartbeatEvent(q)), FALSE, critical, FALSE)
PROOF
  <1>1. e.kind # "tx_command" /\ e.kind # "recovery_result" /\ Beat(e)
        /\ e.to_state # "SAFE_MODE"
    BY DEF Beat
  <1>2. ReplayEvent(q, e) = HeartbeatEvent(q)
    BY DEF ReplayEvent, Beat
  <1>3. /\ FALSE = (e.kind = "tx_command" \/ (late /\ ~Beat(e)))
        /\ critical = (critical \/ e.to_state = "SAFE_MODE")
        /\ FALSE = (e.kind = "tx_command" \/ (FALSE /\ e.kind # "recovery_result"))
    BY <1>1
  <1>4. Says(Append(l, e), Apply(q, ReplayEvent(q, e)),
             e.kind = "tx_command" \/ (late /\ ~Beat(e)),
             critical \/ e.to_state = "SAFE_MODE",
             e.kind = "tx_command" \/ (FALSE /\ e.kind # "recovery_result"))
    BY <1>1, SaysMore
  <1> QED
    BY <1>2, <1>3, <1>4

\* The line of a timeout.
LEMMA TimeoutMore ==
  ASSUME NEW l, NEW q \in HealthState, NEW late \in BOOLEAN, NEW critical \in BOOLEAN,
         Says(l, q, late, critical, FALSE),
         NEW e \in Line, e.kind = "timeout", e.to_state = ""
  PROVE  Says(Append(l, e), Apply(q, "HEARTBEAT_TIMEOUT"), late, critical, FALSE)
PROOF
  <1>1. e.kind # "tx_command" /\ e.kind # "recovery_result" /\ ~Beat(e)
        /\ e.to_state # "SAFE_MODE"
    BY DEF Beat
  <1>2. ReplayEvent(q, e) = "HEARTBEAT_TIMEOUT"
    BY DEF ReplayEvent, Beat
  <1>3. /\ late = (e.kind = "tx_command" \/ (late /\ ~Beat(e)))
        /\ critical = (critical \/ e.to_state = "SAFE_MODE")
        /\ FALSE = (e.kind = "tx_command" \/ (FALSE /\ e.kind # "recovery_result"))
    BY <1>1
  <1>4. Says(Append(l, e), Apply(q, ReplayEvent(q, e)),
             e.kind = "tx_command" \/ (late /\ ~Beat(e)),
             critical \/ e.to_state = "SAFE_MODE",
             e.kind = "tx_command" \/ (FALSE /\ e.kind # "recovery_result"))
    BY <1>1, SaysMore
  <1> QED
    BY <1>2, <1>3, <1>4

\* The line of the command opens a recovery, the line of its result closes it.
LEMMA RecoveryMore ==
  ASSUME NEW l, NEW q \in HealthState, NEW late \in BOOLEAN, NEW critical \in BOOLEAN
  PROVE  /\ Says(l, q, late, critical, FALSE)
              => Says(Append(l, Command), Apply(q, "RECOVERY_SENT"), TRUE, critical, TRUE)
         /\ Says(l, q, late, critical, TRUE)
              => Says(Append(l, Result), q, late, critical, FALSE)
PROOF
  <1>1. PICK e \in Line : /\ e = Command /\ e.kind = "tx_command" /\ e.to_state = ""
                          /\ e.detail = "REQUEST_RECOVERY"
    BY RecoveryLines
  <1>2. PICK r \in Line : r = Result /\ r.kind = "recovery_result" /\ r.to_state = ""
    BY RecoveryLines
  <1>3. ASSUME Says(l, q, late, critical, FALSE)
        PROVE  Says(Append(l, e), Apply(q, "RECOVERY_SENT"), TRUE, critical, TRUE)
    <2>1. ReplayEvent(q, e) = "RECOVERY_SENT"
      BY <1>1 DEF ReplayEvent
    <2>2. /\ TRUE = (e.kind = "tx_command" \/ (late /\ ~Beat(e)))
          /\ critical = (critical \/ e.to_state = "SAFE_MODE")
          /\ TRUE = (e.kind = "tx_command" \/ (FALSE /\ e.kind # "recovery_result"))
      BY <1>1
    <2>3. Says(Append(l, e), Apply(q, ReplayEvent(q, e)),
               e.kind = "tx_command" \/ (late /\ ~Beat(e)),
               critical \/ e.to_state = "SAFE_MODE",
               e.kind = "tx_command" \/ (FALSE /\ e.kind # "recovery_result"))
      BY <1>1, <1>3, SaysMore
    <2> QED
      BY <2>1, <2>2, <2>3
  <1>4. ASSUME Says(l, q, late, critical, TRUE)
        PROVE  Says(Append(l, r), q, late, critical, FALSE)
    <2>1. ReplayEvent(q, r) = "none" /\ ~Beat(r)
      BY <1>2 DEF ReplayEvent, Beat
    <2>2. Apply(q, ReplayEvent(q, r)) = q
      BY <2>1 DEF Apply
    <2>3. /\ late = (r.kind = "tx_command" \/ (late /\ ~Beat(r)))
          /\ critical = (critical \/ r.to_state = "SAFE_MODE")
          /\ FALSE = (r.kind = "tx_command" \/ (TRUE /\ r.kind # "recovery_result"))
      BY <1>2, <2>1
    <2>4. Says(Append(l, r), Apply(q, ReplayEvent(q, r)),
               r.kind = "tx_command" \/ (late /\ ~Beat(r)),
               critical \/ r.to_state = "SAFE_MODE",
               r.kind = "tx_command" \/ (TRUE /\ r.kind # "recovery_result"))
      BY <1>2, <1>4, SaysMore
    <2> QED
      BY <2>2, <2>3, <2>4
  <1> QED
    BY <1>1, <1>2, <1>3, <1>4

\* The line of a transition, when there is one.
LEMMA ChangedMore ==
  ASSUME NEW l, NEW q \in HealthState, NEW late \in BOOLEAN, NEW critical \in BOOLEAN,
         NEW open \in BOOLEAN, Says(l, q, late, critical, open),
         NEW state \in HealthState, NEW event \in HealthEvent,
         Apply(state, event) # "SAFE_MODE" \/ ~Valid(state, event)
  PROVE  Says(l \o Changed(state, event), q, late, critical, open)
PROOF
  <1>1. l \in Seq(Line)
    BY DEF Says
  <1>2. PICK c \in Line : /\ c = ChangeLine(state, event)
                          /\ Apply(state, event) # "SAFE_MODE" => Mute(c)
    BY ChangedLines
  <1>3. CASE Valid(state, event)
    <2>1. l \o Changed(state, event) = Append(l, c)
      <3>1. Changed(state, event) = <<c>>
        BY <1>2, <1>3, ChangedLines
      <3>2. l \o <<c>> = Append(l, c)
        BY <1>1, AppendIsConcat
      <3> QED
        BY <3>1, <3>2
    <2>2. Says(Append(l, c), q, late, critical, open)
      BY <1>2, <1>3, MuteMore
    <2> QED
      BY <2>1, <2>2
  <1>4. CASE ~Valid(state, event)
    <2>1. Changed(state, event) = <<>>
      BY <1>4, ChangedLines
    <2>2. l \o Changed(state, event) = l
      BY <1>1, <2>1, ConcatEmptySeq
    <2> QED
      BY <2>2
  <1> QED
    BY <1>3, <1>4

\* A line and the line of the transition that follows it.
LEMMA LineThenChange ==
  ASSUME NEW l \in Seq(Line), NEW a \in Line,
         NEW state \in HealthState, NEW event \in HealthEvent
  PROVE  l \o (<<a>> \o Changed(state, event)) = Append(l, a) \o Changed(state, event)
PROOF
  <1> DEFINE c == Changed(state, event)
  <1>1. c \in Seq(Line) /\ <<a>> \in Seq(Line)
    <2>1. PICK d \in Line : d = ChangeLine(state, event)
      BY ChangedLines
    <2>2. c = <<d>> \/ c = <<>>
      BY <2>1, ChangedLines
    <2> HIDE DEF c
    <2> QED
      BY <2>1, <2>2, OneLine, EmptySeq
  <1> HIDE DEF c
  <1>2. l \o (<<a>> \o c) = (l \o <<a>>) \o c
    BY <1>1, ConcatAssociative
  <1>3. l \o <<a>> = Append(l, a)
    BY AppendIsConcat
  <1> QED
    BY <1>2, <1>3 DEF c

-----------------------------------------------------------------------------
(* A frame of run_mock. *)

\* Replay of a log in which no critical fault was acted on ends in the state
\* of the recorded run, or in RECOVERING when the last heartbeat was late.
Fits(q, late, critical, state) ==
  ~critical => /\ state \in {"BOOTING", "HEALTHY"}
               /\ q = IF late THEN "RECOVERING" ELSE state
               /\ late => state = "HEALTHY"

Ends(l, state) ==
  \E q \in HealthState, late \in BOOLEAN, critical \in BOOLEAN :
    Says(l, q, late, critical, FALSE) /\ Fits(q, late, critical, state)

Standing == {"BOOTING", "HEALTHY", "SAFE_MODE"}

\* A heartbeat that came late in HEALTHY: the whole recovery is in its lines.
LEMMA LateHeartbeat ==
  ASSUME NEW f, Ends(log, fsm), in_recovery = FALSE, Heartbeat(f), Asks(f)
  PROVE  Ends(log', fsm') /\ fsm' = "HEALTHY" /\ in_recovery' = FALSE
PROOF
  <1>1. PICK q \in HealthState, late \in BOOLEAN, critical \in BOOLEAN :
          Says(log, q, late, critical, FALSE) /\ Fits(q, late, critical, fsm)
    BY DEF Ends
  <1>2. Late(f) /\ fsm = "HEALTHY"
    BY DEF Asks
  <1>3. AfterTimeout(f) = "DEGRADED"
    BY <1>2 DEF AfterTimeout, Apply
  <1>4. AfterCommand(f) = "RECOVERING"
    BY <1>3 DEF AfterCommand, Apply
  <1>5. HeartbeatEvent(AfterCommand(f)) = "HEARTBEAT_RESTORED"
    BY <1>4 DEF HeartbeatEvent
  <1>6. AfterHeartbeat(f) = "HEALTHY"
    BY <1>4, <1>5 DEF AfterHeartbeat, Apply
  <1> DEFINE rx == FrameEvent("rx_frame", "HEARTBEAT")
             to == FrameEvent("timeout", "HEARTBEAT")
             ack == FrameEvent("tx_ack", "ACK")
             l1 == log \o <<rx>>
             l2 == l1 \o (<<to>> \o Changed("HEALTHY", "HEARTBEAT_TIMEOUT"))
             l3 == l2 \o (<<Command>> \o Changed("DEGRADED", "RECOVERY_SENT"))
             l4 == l3 \o Changed("RECOVERING", "HEARTBEAT_RESTORED")
             l5 == l4 \o <<Result>>
             q1 == Apply(q, HeartbeatEvent(q))
             q2 == Apply(q1, "HEARTBEAT_TIMEOUT")
             q3 == Apply(q2, "RECOVERY_SENT")
  <1>7. fsm' = "HEALTHY" /\ in_recovery' = FALSE
    BY <1>4, <1>6 DEF Heartbeat
  <1>8. log' = l5 \o <<ack>>
    BY <1>2, <1>3, <1>4, <1>5 DEF Heartbeat, When, Command, Result
  <1>9. q1 \in HealthState /\ q2 \in HealthState /\ q3 \in HealthState
    BY ApplyType
  <1>10. /\ {"HEALTHY", "DEGRADED", "RECOVERING"} \subseteq HealthState
         /\ {"HEARTBEAT_TIMEOUT", "RECOVERY_SENT", "HEARTBEAT_RESTORED"} \subseteq HealthEvent
         /\ Apply("HEALTHY", "HEARTBEAT_TIMEOUT") # "SAFE_MODE"
         /\ Apply("DEGRADED", "RECOVERY_SENT") # "SAFE_MODE"
         /\ Apply("RECOVERING", "HEARTBEAT_RESTORED") # "SAFE_MODE"
    BY DEF HealthState, HealthEvent, Apply
  <1>11. ~critical => q3 = "RECOVERING"
    BY <1>1, <1>2 DEF Fits, HeartbeatEvent, Apply
  <1>12. rx \in Line /\ Beat(rx) /\ rx.to_state = ""
         /\ to \in Line /\ to.kind = "timeout" /\ to.to_state = ""
    BY BeatLines
  <1>13. Mute(ack)
    <2>1. PICK k \in Kinds, t \in FrameTypes : k = "tx_ack" /\ t = "ACK"
      BY DEF Kinds, FrameTypes
    <2>2. Mute(FrameEvent(k, t))
      BY <2>1, MuteFrame
    <2> QED
      BY <2>1, <2>2
  <1> HIDE DEF rx, to, ack, l1, l2, l3, l4, l5, q1, q2, q3
  <1>14. Says(l1, q1, FALSE, critical, FALSE)
    <2>1. log \in Seq(Line)
      BY <1>1 DEF Says
    <2>2. l1 = Append(log, rx)
      BY <1>12, <2>1, AppendIsConcat DEF l1
    <2>3. Says(Append(log, rx), Apply(q, HeartbeatEvent(q)), FALSE, critical, FALSE)
      BY <1>1, <1>12, HeartbeatMore
    <2> QED
      BY <2>2, <2>3 DEF q1
  <1>15. Says(l2, q2, FALSE, critical, FALSE)
    <2>1. l1 \in Seq(Line)
      BY <1>14 DEF Says
    <2>2. l2 = Append(l1, to) \o Changed("HEALTHY", "HEARTBEAT_TIMEOUT")
      BY <1>10, <1>12, <2>1, LineThenChange DEF l2
    <2>3. Says(Append(l1, to), q2, FALSE, critical, FALSE)
      BY <1>9, <1>12, <1>14, TimeoutMore DEF q2
    <2>4. Says(Append(l1, to) \o Changed("HEALTHY", "HEARTBEAT_TIMEOUT"), q2, FALSE, critical, FALSE)
      BY <1>9, <1>10, <2>3, ChangedMore
    <2> QED
      BY <2>2, <2>4
  <1>16. Says(l3, q3, TRUE, critical, TRUE)
    <2>1. l2 \in Seq(Line)
      BY <1>15 DEF Says
    <2>2. l3 = Append(l2, Command) \o Changed("DEGRADED", "RECOVERY_SENT")
      BY <1>10, <2>1, RecoveryLines, LineThenChange DEF l3
    <2>3. Says(Append(l2, Command), q3, TRUE, critical, TRUE)
      BY <1>9, <1>15, RecoveryMore DEF q3
    <2>4. Says(Append(l2, Command) \o Changed("DEGRADED", "RECOVERY_SENT"), q3, TRUE, critical, TRUE)
      BY <1>9, <1>10, <2>3, ChangedMore
    <2> QED
      BY <2>2, <2>4
  <1>17. Says(l4, q3, TRUE, critical, TRUE)
    BY <1>9, <1>10, <1>16, ChangedMore DEF l4
  <1>18. Says(l5, q3, TRUE, critical, FALSE)
    <2>1. l4 \in Seq(Line)
      BY <1>17 DEF Says
    <2>2. l5 = Append(l4, Result)
      BY <2>1, RecoveryLines, AppendIsConcat DEF l5
    <2>3. Says(Append(l4, Result), q3, TRUE, critical, FALSE)
      BY <1>9, <1>17, RecoveryMore
    <2> QED
      BY <2>2, <2>3
  <1>19. Says(log', q3, TRUE, critical, FALSE)
    <2>1. l5 \in Seq(Line) /\ ack \in Line
      BY <1>13, <1>18 DEF Says, Mute
    <2>2. log' = Append(l5, ack)
      BY <1>8, <2>1, AppendIsConcat
    <2>3. Says(Append(l5, ack), q3, TRUE, critical, FALSE)
      BY <1>9, <1>13, <1>18, MuteMore
    <2> QED
      BY <2>2, <2>3
  <1>20. Fits(q3, TRUE, critical, fsm')
    BY <1>7, <1>11 DEF Fits
  <1> QED
    BY <1>7, <1>9, <1>19, <1>20 DEF Ends

\* Any other heartbeat: it may show a gap, but asks for nothing.
LEMMA PlainHeartbeat ==
  ASSUME NEW f, Ends(log, fsm), fsm \in Standing, have_last_hb => fsm # "BOOTING",
         in_recovery = FALSE, Heartbeat(f), ~Asks(f)
  PROVE  /\ Ends(log', fsm') /\ fsm' \in Standing /\ fsm' # "BOOTING"
         /\ in_recovery' = FALSE
PROOF
  <1>1. PICK q \in HealthState, late \in BOOLEAN, critical \in BOOLEAN :
          Says(log, q, late, critical, FALSE) /\ Fits(q, late, critical, fsm)
    BY DEF Ends
  <1>2. AfterTimeout(f) = fsm /\ (Late(f) => Changed(fsm, "HEARTBEAT_TIMEOUT") = <<>>)
    <2>1. CASE ~Late(f)
      BY <2>1 DEF AfterTimeout
    <2>2. CASE Late(f)
      <3>1. fsm # "HEALTHY"
        BY <2>2 DEF Asks
      <3>2. Apply(fsm, "HEARTBEAT_TIMEOUT") = fsm
        BY <3>1 DEF Standing, Apply
      <3> QED
        BY <2>2, <3>2 DEF AfterTimeout, Changed, Valid
    <2> QED
      BY <2>1, <2>2
  <1>3. AfterCommand(f) = fsm
    BY <1>2 DEF AfterCommand
  <1>4. HeartbeatEvent(fsm) = "HEARTBEAT_OK"
    BY DEF HeartbeatEvent, Standing
  <1>5. /\ fsm' = Apply(fsm, "HEARTBEAT_OK") /\ in_recovery' = FALSE
    BY <1>3, <1>4 DEF Heartbeat, AfterHeartbeat
  <1>6. /\ fsm' \in Standing /\ fsm' # "BOOTING"
        /\ Apply(fsm, "HEARTBEAT_OK") # "SAFE_MODE" \/ ~Valid(fsm, "HEARTBEAT_OK")
    BY <1>5 DEF Standing, Apply, Valid
  <1> DEFINE rx == FrameEvent("rx_frame", "HEARTBEAT")
             to == FrameEvent("timeout", "HEARTBEAT")
             ack == FrameEvent("tx_ack", "ACK")
             l1 == log \o <<rx>>
             l2 == l1 \o When(Late(f), <<to>> \o Changed(fsm, "HEARTBEAT_TIMEOUT"))
             l3 == l2 \o <<>>
             l4 == l3 \o Changed(fsm, "HEARTBEAT_OK")
             l5 == l4 \o <<>>
             q1 == Apply(q, HeartbeatEvent(q))
             q2 == IF Late(f) THEN Apply(q1, "HEARTBEAT_TIMEOUT") ELSE q1
  <1>7. log' = l5 \o <<ack>>
    <2>1. ~(in_recovery \/ Asks(f))
      OBVIOUS
    <2> QED
      BY <1>3, <1>4, <2>1 DEF Heartbeat, When
  <1>8. q1 \in HealthState /\ q2 \in HealthState
    BY ApplyType
  <1>9. fsm \in HealthState /\ "HEARTBEAT_OK" \in HealthEvent
    BY DEF Standing, HealthState, HealthEvent
  <1>10. ~critical => ~Late(f) /\ q1 = "HEALTHY" /\ fsm' = "HEALTHY"
    <2>1. ASSUME ~critical PROVE ~Late(f)
      BY <1>1, <2>1 DEF Late, Asks, Fits
    <2>2. ASSUME ~critical PROVE q1 = "HEALTHY"
      BY <1>1, <2>2 DEF Fits, HeartbeatEvent, Apply
    <2>3. ASSUME ~critical PROVE fsm' = "HEALTHY"
      BY <1>1, <1>5, <2>3 DEF Fits, Apply
    <2> QED
      BY <2>1, <2>2, <2>3
  <1>11. rx \in Line /\ Beat(rx) /\ rx.to_state = ""
         /\ to \in Line /\ to.kind = "timeout" /\ to.to_state = ""
    BY BeatLines
  <1>12. Mute(ack)
    <2>1. PICK k \in Kinds, t \in FrameTypes : k = "tx_ack" /\ t = "ACK"
      BY DEF Kinds, FrameTypes
    <2>2. Mute(FrameEvent(k, t))
      BY <2>1, MuteFrame
    <2> QED
      BY <2>1, <2>2
  <1> HIDE DEF rx, to, ack, l1, l2, l3, l4, l5, q1, q2
  <1>13. Says(l1, q1, FALSE, critical, FALSE)
    <2>1. log \in Seq(Line)
      BY <1>1 DEF Says
    <2>2. l1 = Append(log, rx)
      BY <1>11, <2>1, AppendIsConcat DEF l1
    <2>3. Says(Append(log, rx), Apply(q, HeartbeatEvent(q)), FALSE, critical, FALSE)
      BY <1>1, <1>11, HeartbeatMore
    <2> QED
      BY <2>2, <2>3 DEF q1
  <1>14. Says(l2, q2, FALSE, critical, FALSE)
    <2>1. l1 \in Seq(Line)
      BY <1>13 DEF Says
    <2>2. CASE Late(f)
      <3>1. <<to>> \in Seq(Line)
        BY <1>11, OneLine
      <3>2. <<to>> \o <<>> = <<to>>
        BY <3>1, ConcatEmptySeq
      <3>3. l2 = l1 \o <<to>>
        BY <1>2, <2>2, <3>2 DEF l2, When
      <3>4. l2 = Append(l1, to)
        BY <1>11, <2>1, <3>3, AppendIsConcat
      <3>5. Says(Append(l1, to), q2, FALSE, critical, FALSE)
        BY <1>8, <1>11, <1>13, <2>2, TimeoutMore DEF q2
      <3> QED
        BY <3>4, <3>5
    <2>3. CASE ~Late(f)
      <3>1. l2 = l1
        BY <2>1, <2>3, ConcatEmptySeq DEF l2, When
      <3> QED
        BY <1>13, <2>3, <3>1 DEF q2
    <2> QED
      BY <2>2, <2>3
  <1>15. Says(l4, q2, FALSE, critical, FALSE)
    <2>1. l2 \in Seq(Line)
      BY <1>14 DEF Says
    <2>2. l3 = l2
      BY <2>1, ConcatEmptySeq DEF l3
    <2>3. Says(l2 \o Changed(fsm, "HEARTBEAT_OK"), q2, FALSE, critical, FALSE)
      BY <1>6, <1>8, <1>9, <1>14, ChangedMore
    <2> QED
      BY <2>2, <2>3 DEF l4
  <1>16. Says(log', q2, FALSE, critical, FALSE)
    <2>1. l4 \in Seq(Line) /\ ack \in Line
      BY <1>12, <1>15 DEF Says, Mute
    <2>2. l5 = l4
      BY <2>1, ConcatEmptySeq DEF l5
    <2>3. log' = Append(l4, ack)
      BY <1>7, <2>1, <2>2, AppendIsConcat
    <2>4. Says(Append(l4, ack), q2, FALSE, critical, FALSE)
      BY <1>8, <1>12, <1>15, MuteMore
    <2> QED
      BY <2>3, <2>4
  <1>17. Fits(q2, FALSE, critical, fsm')
    BY <1>10 DEF Fits, q2
  <1> QED
    BY <1>5, <1>6, <1>8, <1>16, <1>17 DEF Ends

\* The frames that are not heartbeats: nothing of theirs reaches replay, and a
\* critical fault that is acted on is in the log.
LEMMA OtherFrames ==
  ASSUME NEW f \in Frames, Ends(log, fsm), fsm \in Standing,
         BadFrame(f) \/ DuplicateFrame(f) \/ FaultEvent(f) \/ OtherFrame(f)
  PROVE  Ends(log', fsm') /\ fsm' \in Standing /\ (fsm' = "BOOTING" => fsm = "BOOTING")
PROOF
  <1>1. PICK q \in HealthState, late \in BOOLEAN, critical \in BOOLEAN :
          Says(log, q, late, critical, FALSE) /\ Fits(q, late, critical, fsm)
    BY DEF Ends
  <1>2. log \in Seq(Line)
    BY <1>1 DEF Says
  <1>3. f.type \in FrameTypes
    BY OfflineAssumption DEF Frame, FrameTypes
  <1>4. "checksum_error" \in Kinds /\ "tx_nack" \in Kinds /\ "duplicate" \in Kinds
        /\ "rx_frame" \in Kinds /\ "NACK" \in FrameTypes
    BY DEF Kinds, FrameTypes
  <1>5. fsm' = fsm \/ fsm' = Apply(fsm, "CRITICAL_FAULT")
    BY DEF BadFrame, DuplicateFrame, FaultEvent, OtherFrame
  <1>6. fsm' \in Standing /\ (fsm' = "BOOTING" => fsm = "BOOTING")
    BY <1>5 DEF Standing, Apply
  <1> SUFFICES Ends(log', fsm')
    BY <1>6
  <1>7. ASSUME NEW e, Mute(e), log' = Append(log, e), fsm' = fsm
        PROVE  Ends(log', fsm')
    BY <1>1, <1>7, MuteMore DEF Ends
  <1>8. CASE BadFrame(f)
    <2> DEFINE a == FrameEvent("checksum_error", f.type)
               b == FrameEvent("tx_nack", "NACK")
    <2>1. Mute(a)
      <3>1. PICK k \in Kinds : k = "checksum_error"
        BY <1>4
      <3> QED
        BY <1>3, <3>1, MuteFrame
    <2>2. Mute(b)
      <3>1. PICK k \in Kinds, t \in FrameTypes : k = "tx_nack" /\ t = "NACK"
        BY <1>4
      <3>2. Mute(FrameEvent(k, t))
        BY <3>1, MuteFrame
      <3> QED
        BY <3>1, <3>2
    <2>3. log' = log \o <<a, b>> /\ fsm' = fsm
      BY <1>8 DEF BadFrame
    <2> HIDE DEF a, b
    <2>4. log' = Append(Append(log, a), b)
      BY <1>2, <2>1, <2>2, <2>3, Added DEF Mute
    <2>5. Says(Append(log, a), q, late, critical, FALSE)
      BY <1>1, <2>1, MuteMore
    <2>6. Says(Append(Append(log, a), b), q, late, critical, FALSE)
      BY <2>2, <2>5, MuteMore
    <2> QED
      BY <1>1, <2>3, <2>4, <2>6 DEF Ends
  <1>9. CASE DuplicateFrame(f)
    <2>1. Mute(FrameEvent("duplicate", f.type))
      <3>1. PICK k \in Kinds : k = "duplicate"
        BY <1>4
      <3> QED
        BY <1>3, <3>1, MuteFrame
    <2>2. log' = Append(log, FrameEvent("duplicate", f.type)) /\ fsm' = fsm
      BY <1>9 DEF DuplicateFrame
    <2> QED
      BY <1>7, <2>1, <2>2
  <1>10. CASE f.type # "HEARTBEAT" /\ log' = Append(log, FrameEvent("rx_frame", f.type))
             /\ fsm' = fsm
    <2>1. Mute(FrameEvent("rx_frame", f.type))
      <3>1. PICK k \in Kinds : k = "rx_frame"
        BY <1>4
      <3> QED
        BY <1>3, <1>10, <3>1, MuteFrame
    <2> QED
      BY <1>7, <1>10, <2>1
  <1>11. CASE /\ f.type = "FAULT_EVENT" /\ fsm' = Apply(fsm, "CRITICAL_FAULT")
             /\ log' = log \o <<FrameEvent("rx_frame", f.type)>> \o Changed(fsm, "CRITICAL_FAULT")
    <2> DEFINE a == FrameEvent("rx_frame", f.type)
    <2>1. Mute(a)
      <3>1. PICK k \in Kinds : k = "rx_frame"
        BY <1>4
      <3> QED
        BY <1>3, <1>11, <3>1, MuteFrame
    <2> DEFINE l1 == log \o <<a>>
    <2>2. log' = l1 \o Changed(fsm, "CRITICAL_FAULT")
      BY <1>11
    <2> HIDE DEF a
    <2>3. l1 = Append(log, a)
      BY <1>2, <2>1, AppendIsConcat DEF Mute
    <2> HIDE DEF l1
    <2>4. Says(l1, q, late, critical, FALSE)
      BY <1>1, <2>1, <2>3, MuteMore
    <2>5. fsm \in HealthState /\ "CRITICAL_FAULT" \in HealthEvent
      BY DEF Standing, HealthState, HealthEvent
    <2>6. CASE fsm = "HEALTHY"
      <3> DEFINE c == ChangeLine(fsm, "CRITICAL_FAULT")
      <3>1. Apply(fsm, "CRITICAL_FAULT") = "SAFE_MODE" /\ Valid(fsm, "CRITICAL_FAULT")
        BY <2>6 DEF Apply, Valid
      <3>2. c \in Line /\ c.kind = "state_change" /\ c.to_state = "SAFE_MODE"
        BY <2>5, <3>1, ChangedLines
      <3>3. Changed(fsm, "CRITICAL_FAULT") = <<c>>
        BY <2>5, <3>1, ChangedLines
      <3> HIDE DEF c
      <3>4. l1 \in Seq(Line)
        BY <2>4 DEF Says
      <3>5. log' = Append(l1, c)
        BY <2>2, <3>2, <3>3, <3>4, AppendIsConcat
      <3>6. Says(Append(l1, c), Apply(q, ReplayEvent(q, c)),
                 c.kind = "tx_command" \/ (late /\ ~Beat(c)),
                 critical \/ c.to_state = "SAFE_MODE",
                 c.kind = "tx_command" \/ (FALSE /\ c.kind # "recovery_result"))
        BY <2>4, <3>2, SaysMore
      <3>7. /\ late = (c.kind = "tx_command" \/ (late /\ ~Beat(c)))
            /\ TRUE = (critical \/ c.to_state = "SAFE_MODE")
            /\ FALSE = (c.kind = "tx_command" \/ (FALSE /\ c.kind # "recovery_result"))
        BY <3>2 DEF Beat
      <3>8. PICK p \in HealthState : p = Apply(q, ReplayEvent(q, c))
        BY ApplyType
      <3>9. Says(log', p, late, TRUE, FALSE)
        BY <3>5, <3>6, <3>7, <3>8
      <3>10. Fits(p, late, TRUE, fsm')
        BY DEF Fits
      <3> QED
        BY <3>9, <3>10 DEF Ends
    <2>7. CASE fsm # "HEALTHY"
      <3>1. Apply(fsm, "CRITICAL_FAULT") = fsm
        BY <2>7 DEF Standing, Apply
      <3>2. ~Valid(fsm, "CRITICAL_FAULT") /\ fsm' = fsm
        BY <1>11, <3>1 DEF Valid
      <3>3. Says(log', q, late, critical, FALSE)
        BY <2>2, <2>4, <2>5, <3>2, ChangedMore
      <3> QED
        BY <1>1, <3>2, <3>3 DEF Ends
    <2> QED
      BY <2>6, <2>7
  <1>12. \/ BadFrame(f) \/ DuplicateFrame(f)
         \/ f.type # "HEARTBEAT" /\ log' = Append(log, FrameEvent("rx_frame", f.type)) /\ fsm' = fsm
         \/ /\ f.type = "FAULT_EVENT" /\ fsm' = Apply(fsm, "CRITICAL_FAULT")
            /\ log' = log \o <<FrameEvent("rx_frame", f.type)>> \o Changed(fsm, "CRITICAL_FAULT")
    BY DEF FaultEvent, OtherFrame
  <1> QED
    BY <1>8, <1>9, <1>10, <1>11, <1>12

-----------------------------------------------------------------------------
(* The invariant. *)

\* Replay is where the states of the log say, and will end where they end.
Tracks ==
  \E h : /\ Passes(log, h) /\ h[line] = replay_fsm
         /\ Fits(h[Len(log)], LateAt(log), CriticalIn(log), fsm)

OInv ==
  /\ mode \in {"mock", "replay", "done"}
  /\ fsm \in Standing /\ in_recovery = FALSE
  /\ have_last_hb \in BOOLEAN /\ (have_last_hb => fsm # "BOOTING")
  /\ log \in Seq(Line) /\ Paired(log)
  /\ line \in 0..Len(log)
  /\ mode = "mock" => line = 0 /\ replay_fsm = "BOOTING"
  /\ mode = "done" => line = Len(log)
  /\ Tracks

\* In the states of the invariant the log ends as it should.
LEMMA TracksEnds ==
  ASSUME NEW l, NEW state, NEW h, Passes(l, h), l \in Seq(Line), Paired(l),
         Fits(h[Len(l)], LateAt(l), CriticalIn(l), state)
  PROVE  Ends(l, state)
PROOF
  <1>1. Len(l) \in Nat
    BY LenProperties
  <1>2. PICK q \in HealthState : q = h[Len(l)]
    BY <1>1 DEF Passes
  <1>3. PICK late \in BOOLEAN, critical \in BOOLEAN :
          late = LateAt(l) /\ critical = CriticalIn(l)
    BY DEF LateAt, CriticalIn
  <1>4. Says(l, q, late, critical, FALSE)
    BY <1>2, <1>3 DEF Says, Reaches
  <1>5. Fits(q, late, critical, state)
    BY <1>2, <1>3
  <1> QED
    BY <1>4, <1>5 DEF Ends

\* A log that ends as it should has states that replay passes through.
LEMMA EndsTracks ==
  ASSUME NEW l, NEW state, Ends(l, state)
  PROVE  /\ l \in Seq(Line) /\ Paired(l)
         /\ \E h : /\ Passes(l, h) /\ h[0] = "BOOTING"
                   /\ Fits(h[Len(l)], LateAt(l), CriticalIn(l), state)
PROOF
  <1>1. PICK q \in HealthState, late \in BOOLEAN, critical \in BOOLEAN :
          Says(l, q, late, critical, FALSE) /\ Fits(q, late, critical, state)
    BY DEF Ends
  <1>2. l \in Seq(Line) /\ Paired(l) /\ late = LateAt(l) /\ critical = CriticalIn(l)
    BY <1>1 DEF Says
  <1>3. PICK h : Passes(l, h) /\ h[Len(l)] = q
    BY <1>1 DEF Says, Reaches
  <1>4. h[0] = "BOOTING"
    BY <1>3 DEF Passes
  <1>5. Fits(h[Len(l)], LateAt(l), CriticalIn(l), state)
    BY <1>1, <1>2, <1>3
  <1> QED
    BY <1>2, <1>3, <1>4, <1>5

\* Before the first frame.
LEMMA OfflineInit == Init => OInv
PROOF
  <1> SUFFICES ASSUME Init PROVE OInv
    OBVIOUS
  <1> DEFINE h == [i \in 0..0 |-> "BOOTING"]
  <1>1. log = <<>> /\ Len(log) = 0 /\ log \in Seq(Line) /\ DOMAIN log = {}
    BY EmptySeq DEF Init
  <1>2. Paired(log) /\ ~LateAt(log) /\ ~CriticalIn(log)
    BY <1>1 DEF Paired, LateAt, CriticalIn
  <1>3. h \in [0..0 -> HealthState] /\ h[0] = "BOOTING"
    BY DEF HealthState
  <1> HIDE DEF h
  <1>4. Passes(log, h)
    BY <1>1, <1>3 DEF Passes
  <1>5. h[line] = replay_fsm /\ fsm = "BOOTING" /\ h[Len(log)] = "BOOTING"
    BY <1>1, <1>3 DEF Init
  <1>6. Fits(h[Len(log)], LateAt(log), CriticalIn(log), fsm)
    BY <1>2, <1>5 DEF Fits
  <1>7. Tracks
    BY <1>4, <1>5, <1>6 DEF Tracks
  <1>8. mode = "mock" /\ line = 0 /\ replay_fsm = "BOOTING" /\ in_recovery = FALSE
        /\ have_last_hb = FALSE
    BY DEF Init
  <1>9. line \in 0..Len(log)
    BY <1>1, <1>8
  <1> QED
    BY <1>1, <1>2, <1>5, <1>7, <1>8, <1>9 DEF OInv, Standing

\* A frame of run_mock keeps the invariant, and so does every line of
\* run_replay.
LEMMA OfflineStep == OInv /\ [Next]_vars => OInv'
PROOF
  <1> SUFFICES ASSUME OInv, [Next]_vars PROVE OInv'
    OBVIOUS
  <1>1. PICK h : /\ Passes(log, h) /\ h[line] = replay_fsm
                 /\ Fits(h[Len(log)], LateAt(log), CriticalIn(log), fsm)
    BY DEF OInv, Tracks
  <1>2. log \in Seq(Line) /\ Paired(log) /\ Len(log) \in Nat
    BY LenProperties DEF OInv
  <1>3. Ends(log, fsm)
    BY <1>1, <1>2, TracksEnds
  <1>4. ASSUME mode = "mock", UNCHANGED <<mode, line, replay_fsm>>, Ends(log', fsm'),
               fsm' \in Standing, in_recovery' = FALSE, have_last_hb' \in BOOLEAN,
               have_last_hb' => fsm' # "BOOTING"
        PROVE  OInv'
    <2>1. PICK k : /\ Passes(log', k) /\ k[0] = "BOOTING"
                   /\ Fits(k[Len(log')], LateAt(log'), CriticalIn(log'), fsm')
      BY <1>4, EndsTracks
    <2>2. log' \in Seq(Line) /\ Paired(log')
      BY <1>4, EndsTracks
    <2>3. line' = 0 /\ replay_fsm' = "BOOTING" /\ mode' = "mock"
      BY <1>4 DEF OInv
    <2>4. Tracks'
      BY <2>1, <2>3 DEF Tracks, Passes, LateAt, CriticalIn, Fits
    <2>5. line' \in 0..Len(log')
      BY <2>2, <2>3, LenProperties
    <2>6. Paired(log)'
      BY <2>2 DEF Paired, Closes
    <2> QED
      BY <1>4, <2>2, <2>3, <2>4, <2>5, <2>6 DEF OInv
  <1>5. ASSUME NEW f \in Frames,
               BadFrame(f) \/ DuplicateFrame(f) \/ FaultEvent(f) \/ OtherFrame(f)
        PROVE  OInv'
    <2>1. /\ mode = "mock" /\ UNCHANGED <<mode, line, replay_fsm, in_recovery, have_last_hb>>
      BY <1>5 DEF BadFrame, DuplicateFrame, FaultEvent, OtherFrame, NextFrame, replayVars
    <2>2. Ends(log', fsm') /\ fsm' \in Standing /\ (fsm' = "BOOTING" => fsm = "BOOTING")
      BY <1>3, <1>5, OtherFrames DEF OInv
    <2> QED
      BY <1>4, <2>1, <2>2 DEF OInv
  <1>6. ASSUME NEW f \in Frames, Heartbeat(f)
        PROVE  OInv'
    <2>1. /\ mode = "mock" /\ UNCHANGED <<mode, line, replay_fsm>> /\ have_last_hb' = TRUE
      BY <1>6 DEF Heartbeat, NextFrame, replayVars
    <2>2. Ends(log', fsm') /\ fsm' \in Standing /\ fsm' # "BOOTING" /\ in_recovery' = FALSE
      <3>1. CASE Asks(f)
        BY <1>3, <1>6, <3>1, LateHeartbeat DEF OInv, Standing
      <3>2. CASE ~Asks(f)
        BY <1>3, <1>6, <3>2, PlainHeartbeat DEF OInv
      <3> QED
        BY <3>1, <3>2
    <2> QED
      BY <1>4, <2>1, <2>2
  <1>7. ASSUME UNCHANGED <<log, fsm, in_recovery, have_last_hb, line, replay_fsm>>,
               mode' \in {"mock", "replay", "done"}, mode' = "mock" => mode = "mock",
               mode' = "done" => line = Len(log)
        PROVE  OInv'
    <2>1. Tracks' /\ Paired(log)'
      BY <1>1, <1>2, <1>7 DEF Tracks, Passes, LateAt, CriticalIn, Fits, Paired, Closes
    <2> QED
      BY <1>7, <2>1 DEF OInv
  <1>8. CASE EndOfFile
    BY <1>7, <1>8 DEF EndOfFile, mockVars, replayVars
  <1>9. CASE EndOfReplay
    BY <1>7, <1>9 DEF EndOfReplay, mockVars, replayVars
  <1>10. CASE UNCHANGED vars
    BY <1>7, <1>10 DEF vars, mockVars, replayVars, OInv
  <1>11. CASE ReplayLine
    <2>1. /\ mode = "replay" /\ line < Len(log) /\ line' = line + 1
          /\ replay_fsm' = Apply(replay_fsm, ReplayEvent(replay_fsm, log[line + 1]))
          /\ UNCHANGED <<mode, log, fsm, in_recovery, have_last_hb>>
      BY <1>11 DEF ReplayLine, mockVars
    <2>2. line \in 0..Len(log)
      BY DEF OInv
    <2>3. line + 1 \in 1..Len(log) /\ (line + 1) - 1 = line /\ line + 1 \in 0..Len(log)
      BY <1>2, <2>1, <2>2
    <2>4. h[line + 1] = Apply(h[(line + 1) - 1], ReplayEvent(h[(line + 1) - 1], log[line + 1]))
      BY <1>1, <2>3 DEF Passes
    <2>5. h[line + 1] = replay_fsm'
      BY <1>1, <2>1, <2>3, <2>4
    <2>6. h[line'] = replay_fsm'
      BY <2>1, <2>5
    <2>7. Tracks'
      BY <1>1, <2>1, <2>6 DEF Tracks, Passes, LateAt, CriticalIn, Fits
    <2>8. Paired(log)'
      BY <1>2, <2>1 DEF Paired, Closes
    <2>9. line' \in 0..Len(log')
      BY <2>1, <2>3
    <2> QED
      BY <1>2, <2>1, <2>7, <2>8, <2>9 DEF OInv
  <1> QED
    BY <1>5, <1>6, <1>8, <1>9, <1>10, <1>11 DEF Next

\* In mock mode a recovery never outlives its frame, for any recorded file: the
\* heartbeat that shows the gap also ends the recovery, and every command is
\* followed by its result before the next one (main.cpp, run_mock).
THEOREM RecoveriesClosed == Spec => []RecoveryClosed
PROOF
  <1>1. Init => OInv
    BY OfflineInit
  <1>2. OInv /\ [Next]_vars => OInv'
    BY OfflineStep
  <1>3. OInv => RecoveryClosed
    BY DEF OInv, RecoveryClosed, Standing
  <1> QED
    BY <1>1, <1>2, <1>3, PTL DEF Spec

\* What run_replay tells of any recorded run without a critical fault: it ends
\* in the state of that run, or one heartbeat behind it when the last heartbeat
\* came late.
THEOREM ReplayBehind == Spec => []ReplayOneBehind
PROOF
  <1>1. Init => OInv
    BY OfflineInit
  <1>2. OInv /\ [Next]_vars => OInv'
    BY OfflineStep
  <1>3. OInv => ReplayOneBehind
    <2> SUFFICES ASSUME OInv, mode = "done", ~CriticalSeen
                 PROVE  replay_fsm = IF LastWasLate THEN "RECOVERING" ELSE fsm
      BY DEF ReplayOneBehind
    <2>1. PICK h : /\ Passes(log, h) /\ h[line] = replay_fsm
                   /\ Fits(h[Len(log)], LateAt(log), CriticalIn(log), fsm)
      BY DEF OInv, Tracks
    <2>2. line = Len(log)
      BY DEF OInv
    <2>3. ~CriticalIn(log)
      BY DEF CriticalSeen, CriticalIn
    <2>4. LateAt(log) <=> LastWasLate
      BY DEF LateAt, LastWasLate, Beat
    <2>5. replay_fsm = IF LateAt(log) THEN "RECOVERING" ELSE fsm
      BY <2>1, <2>2, <2>3 DEF Fits
    <2> QED
      BY <2>4, <2>5
  <1> QED
    BY <1>1, <1>2, <1>3, PTL DEF Spec

\* The rest of the types: the frames still to come, the time of the last
\* heartbeat and the duplicate table.
Counters ==
  /\ left \in 0..MaxFrames
  /\ last_hb_ts \in 0..(Wrap - 1)
  /\ seen \subseteq {Key(f) : f \in Frames}

\* Both state machines, the table and the place in the log keep their types in
\* run_mock and in run_replay, for any recorded file.
THEOREM OfflineTypeCorrect == Spec => []TypeOK
PROOF
  <1>1. Init => OInv /\ Counters
    <2>1. Init => OInv
      BY OfflineInit
    <2>2. Init => Counters
      BY OfflineAssumption DEF Init, Counters
    <2> QED
      BY <2>1, <2>2
  <1>2. OInv /\ [Next]_vars => OInv'
    BY OfflineStep
  <1>3. Counters /\ [Next]_vars => Counters'
    <2> SUFFICES ASSUME Counters, [Next]_vars PROVE Counters'
      OBVIOUS
    <2>1. ASSUME NEW f \in Frames, BadFrame(f) \/ DuplicateFrame(f) \/ Heartbeat(f)
                                   \/ FaultEvent(f) \/ OtherFrame(f)
          PROVE  Counters'
      <3>1. left > 0 /\ left' = left - 1
        BY <2>1 DEF BadFrame, DuplicateFrame, Heartbeat, FaultEvent, OtherFrame, NextFrame
      <3>2. left' \in 0..MaxFrames
        BY <3>1, OfflineAssumption DEF Counters
      <3>3. last_hb_ts' \in {last_hb_ts, f.ts}
        BY <2>1 DEF BadFrame, DuplicateFrame, Heartbeat, FaultEvent, OtherFrame
      <3>4. f.ts \in 0..(Wrap - 1)
        BY OfflineAssumption DEF Frame
      <3>5. seen' = seen \/ seen' = seen \cup {Key(f)}
        BY <2>1 DEF BadFrame, DuplicateFrame, Heartbeat, FaultEvent, OtherFrame, Fresh
      <3>6. seen' \subseteq {Key(g) : g \in Frames}
        BY <3>5 DEF Counters
      <3> QED
        BY <3>2, <3>3, <3>4, <3>6 DEF Counters
    <2>2. ASSUME UNCHANGED <<left, last_hb_ts, seen>>
          PROVE  Counters'
      BY <2>2 DEF Counters
    <2> QED
      BY <2>1, <2>2 DEF Next, EndOfFile, ReplayLine, EndOfReplay, mockVars, vars
  <1>4. OInv /\ Counters => TypeOK
    <2> SUFFICES ASSUME OInv, Counters PROVE TypeOK
      OBVIOUS
    <2>1. PICK h : Passes(log, h) /\ h[line] = replay_fsm
      BY DEF OInv, Tracks
    <2>2. replay_fsm \in HealthState
      BY <2>1 DEF Passes, OInv
    <2>3. fsm \in HealthState
      BY DEF OInv, Standing, HealthState
    <2> QED
      BY <2>2, <2>3 DEF OInv, Counters, TypeOK
  <1> QED
    BY <1>1, <1>2, <1>3, <1>4, PTL DEF Spec
============================================================================
