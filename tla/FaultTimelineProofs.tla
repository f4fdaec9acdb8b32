------------------------ MODULE FaultTimelineProofs ------------------------
(***************************************************************************)
(* CausalOrder, CountsCoverTimeline and TypeOK for every size of the ring  *)
(* and of the reporter's table, and for any number of timeouts, recoveries *)
(* and frames.                                                             *)
(*                                                                         *)
(* The timer's callback records its timeout before it queues the work.  So *)
(* while the timer is inside its callback the timeout it is about is not   *)
(* scheduled yet, and every recovery recorded so far came after scheduled  *)
(* timeouts only, which have smaller numbers.                              *)
(*                                                                         *)
(* The counts are an account.  A counted record is listed, lost or still   *)
(* in the hands of the one program that counts it.                         *)
(***************************************************************************)
EXTENDS FaultTimeline, FiniteSetTheorems, SequenceTheorems, TLAPS

Rec == [kind : {"HEARTBEAT_RESTORED", "TIMEOUT", "RECOVERY"},
        by : Contexts, busy : BOOLEAN, of : Nat]

Types ==
  /\ timeouts \in Nat /\ scheduled \in Nat /\ answered \in Nat
  /\ DOMAIN pc = Contexts
  /\ prog \in [Contexts -> Tracepoint]
  /\ timeline_rb \in Seq(Rec) /\ g_timeline \in Seq(Rec)

\* Where the numbers of the timeouts stand.
Numbers ==
  /\ answered <= scheduled /\ scheduled <= timeouts
  /\ pc["timer"] # "idle" => scheduled < timeouts
  /\ \A c \in Contexts : prog[c] = "timeout_detected" => c = "timer"

\* Record e may be listed before record f.
MayPrecede(e, f) == e.kind = "RECOVERY" /\ f.kind = "TIMEOUT" => e.of < f.of

Within(s) == \A i, j \in DOMAIN s : i < j => MayPrecede(s[i], s[j])
Across(s, t) == \A i \in DOMAIN s, j \in DOMAIN t : MayPrecede(s[i], t[j])
Bounded(s) == \A i \in DOMAIN s : s[i].kind = "RECOVERY" => s[i].of <= answered

IInv ==
  /\ Types /\ Numbers
  /\ Within(g_timeline) /\ Within(timeline_rb) /\ Across(g_timeline, timeline_rb)
  /\ Bounded(g_timeline) /\ Bounded(timeline_rb)

\* The record a program reserves has the right type, and it may follow every
\* record whose recovery is bounded by answered.
LEMMA RecordFits ==
  ASSUME Types, Numbers, NEW c \in Contexts, pc[c] # "idle"
  PROVE  /\ Record(c) \in Rec
         /\ Record(c).kind = "RECOVERY" => Record(c).of <= answered
         /\ Record(c).kind = "TIMEOUT" => answered < Record(c).of
<1>1. CASE prog[c] = "timeout_detected"
  <2>1. Record(c) = [kind |-> "TIMEOUT", by |-> c, busy |-> TRUE, of |-> timeouts]
    BY <1>1 DEF Record, Kind
  <2>2. answered < timeouts
    BY <1>1 DEF Types, Numbers
  <2> QED BY <2>1, <2>2 DEF Types, Rec
<1>2. CASE prog[c] = "recovery_queued"
  <2>1. Record(c) = [kind |-> "RECOVERY", by |-> c, busy |-> TRUE, of |-> answered]
    BY <1>2 DEF Record, Kind
  <2> QED BY <2>1 DEF Types, Rec
<1>3. CASE prog[c] = "frame_received"
  <2>1. Record(c) = [kind |-> "HEARTBEAT_RESTORED", by |-> c, busy |-> TRUE, of |-> 0]
    BY <1>3 DEF Record, Kind
  <2> QED BY <2>1 DEF Types, Rec
<1> QED BY <1>1, <1>2, <1>3 DEF Types, Tracepoint, Counted

\* Appending such a record to the ring keeps the order (bpf_ringbuf_reserve).
LEMMA AppendOrdered ==
  ASSUME NEW s \in Seq(Rec), NEW t \in Seq(Rec), NEW a \in Nat, NEW r \in Rec,
         Within(t), Across(s, t),
         \A i \in DOMAIN s : s[i].kind = "RECOVERY" => s[i].of <= a,
         \A i \in DOMAIN t : t[i].kind = "RECOVERY" => t[i].of <= a,
         r.kind = "RECOVERY" => r.of <= a,
         r.kind = "TIMEOUT" => a < r.of
  PROVE  /\ Append(t, r) \in Seq(Rec)
         /\ Within(Append(t, r)) /\ Across(s, Append(t, r))
         /\ \A i \in DOMAIN Append(t, r) :
              Append(t, r)[i].kind = "RECOVERY" => Append(t, r)[i].of <= a
<1> DEFINE u == Append(t, r)
<1>1. /\ u \in Seq(Rec) /\ Len(u) = Len(t) + 1
      /\ \A i \in 1..Len(t) : u[i] = t[i]
      /\ u[Len(t) + 1] = r
  OBVIOUS
<1>2. DOMAIN u = 1..(Len(t) + 1) /\ DOMAIN t = 1..Len(t) /\ DOMAIN s = 1..Len(s)
  BY <1>1
<1>3. \A i \in DOMAIN s : s[i] \in Rec
  OBVIOUS
<1>4. \A i \in DOMAIN t : t[i] \in Rec
  OBVIOUS
<1> HIDE DEF u
<1>5. Within(u)
  <2> SUFFICES ASSUME NEW i \in DOMAIN u, NEW j \in DOMAIN u, i < j
               PROVE  MayPrecede(u[i], u[j])
    BY DEF Within
  <2>1. i \in DOMAIN t /\ u[i] = t[i]
    BY <1>1, <1>2
  <2>2. CASE j \in DOMAIN t
    BY <2>1, <2>2, <1>1, <1>2 DEF Within
  <2>3. CASE j = Len(t) + 1
    BY <2>1, <2>3, <1>1, <1>4 DEF MayPrecede, Rec
  <2> QED BY <2>2, <2>3, <1>2
<1>6. Across(s, u)
  <2> SUFFICES ASSUME NEW i \in DOMAIN s, NEW j \in DOMAIN u
               PROVE  MayPrecede(s[i], u[j])
    BY DEF Across
  <2>1. CASE j \in DOMAIN t
    BY <2>1, <1>1, <1>2 DEF Across
  <2>2. CASE j = Len(t) + 1
    BY <2>2, <1>1, <1>3 DEF MayPrecede, Rec
  <2> QED BY <2>1, <2>2, <1>2
<1>7. \A i \in DOMAIN u : u[i].kind = "RECOVERY" => u[i].of <= a
  BY <1>1, <1>2
<1> QED BY <1>1, <1>5, <1>6, <1>7 DEF u

\* Consuming the oldest record keeps the order, whether the reporter's table
\* has room for it or not (handle_rb_event).
LEMMA ConsumeOrdered ==
  ASSUME NEW s \in Seq(Rec), NEW t \in Seq(Rec), t # <<>>,
         Within(s), Within(t), Across(s, t)
  PROVE  /\ Tail(t) \in Seq(Rec) /\ Append(s, Head(t)) \in Seq(Rec)
         /\ Within(Tail(t)) /\ Across(s, Tail(t))
         /\ Within(Append(s, Head(t))) /\ Across(Append(s, Head(t)), Tail(t))
<1> DEFINE u == Append(s, Head(t))
           w == Tail(t)
<1>1. /\ Head(t) = t[1] /\ 1 \in DOMAIN t /\ Head(t) \in Rec
      /\ w \in Seq(Rec) /\ Len(w) = Len(t) - 1
      /\ \A i \in 1..Len(w) : w[i] = t[i + 1]
  OBVIOUS
<1>2. /\ u \in Seq(Rec) /\ Len(u) = Len(s) + 1
      /\ \A i \in 1..Len(s) : u[i] = s[i]
      /\ u[Len(s) + 1] = t[1]
  BY <1>1
<1>3. /\ DOMAIN u = 1..(Len(s) + 1) /\ DOMAIN w = 1..(Len(t) - 1)
      /\ DOMAIN s = 1..Len(s) /\ DOMAIN t = 1..Len(t)
      /\ Len(t) \in Nat /\ Len(s) \in Nat
  BY <1>1, <1>2
<1> HIDE DEF u, w
<1>8. \A i \in DOMAIN w : i + 1 \in DOMAIN t /\ w[i] = t[i + 1]
  BY <1>1, <1>3
<1>4. Within(w)
  <2> SUFFICES ASSUME NEW i \in DOMAIN w, NEW j \in DOMAIN w, i < j
               PROVE  MayPrecede(w[i], w[j])
    BY DEF Within
  <2>1. i + 1 \in DOMAIN t /\ j + 1 \in DOMAIN t /\ i + 1 < j + 1
    BY <1>8, <1>3
  <2>2. MayPrecede(t[i + 1], t[j + 1])
    BY <2>1 DEF Within
  <2> QED BY <2>2, <1>8
<1>5. Across(s, w)
  <2> SUFFICES ASSUME NEW i \in DOMAIN s, NEW j \in DOMAIN w
               PROVE  MayPrecede(s[i], w[j])
    BY DEF Across
  <2>1. MayPrecede(s[i], t[j + 1])
    BY <1>8 DEF Across
  <2> QED BY <2>1, <1>8
<1>6. Within(u)
  <2> SUFFICES ASSUME NEW i \in DOMAIN u, NEW j \in DOMAIN u, i < j
               PROVE  MayPrecede(u[i], u[j])
    BY DEF Within
  <2>1. CASE j \in DOMAIN s
    BY <2>1, <1>2, <1>3 DEF Within
  <2>2. CASE j = Len(s) + 1
    <3>1. i \in DOMAIN s /\ u[i] = s[i] /\ u[j] = t[1]
      BY <2>2, <1>2, <1>3
    <3>2. MayPrecede(s[i], t[1])
      BY <3>1, <1>1 DEF Across
    <3> QED BY <3>1, <3>2
  <2> QED BY <2>1, <2>2, <1>3
<1>7. Across(u, w)
  <2> SUFFICES ASSUME NEW i \in DOMAIN u, NEW j \in DOMAIN w
               PROVE  MayPrecede(u[i], w[j])
    BY DEF Across
  <2>1. CASE i \in DOMAIN s
    <3>1. MayPrecede(s[i], w[j])
      BY <2>1, <1>5 DEF Across
    <3> QED BY <2>1, <3>1, <1>2, <1>3
  <2>2. CASE i = Len(s) + 1
    <3>1. j + 1 \in DOMAIN t /\ 1 < j + 1
      BY <1>8, <1>3
    <3>2. MayPrecede(t[1], t[j + 1])
      BY <3>1, <1>1 DEF Within
    <3> QED BY <2>2, <3>2, <1>2, <1>8
  <2> QED BY <2>1, <2>2, <1>3
<1> QED BY <1>1, <1>2, <1>4, <1>5, <1>6, <1>7 DEF u, w

\* The ring's records keep their kinds and numbers when one is submitted
\* (bpf_ringbuf_submit), so their order stands.
LEMMA SameOrder ==
  ASSUME NEW s \in Seq(Rec), NEW t \in Seq(Rec), NEW u \in Seq(Rec),
         DOMAIN u = DOMAIN t,
         \A i \in DOMAIN t : u[i].kind = t[i].kind /\ u[i].of = t[i].of,
         Within(t), Across(s, t)
  PROVE  Within(u) /\ Across(s, u)
BY DEF Within, Across, MayPrecede

\* The invariant holds when the tracer attaches.
LEMMA TimelineInit == Init => IInv
<1> SUFFICES ASSUME Init PROVE IInv
  OBVIOUS
<1>1. Types
  <2>1. <<>> \in Seq(Rec)
    OBVIOUS
  <2> QED BY <2>1 DEF Init, Types, Tracepoint
<1>2. Numbers
  BY DEF Init, Numbers, Contexts
<1>3. /\ Within(g_timeline) /\ Within(timeline_rb) /\ Across(g_timeline, timeline_rb)
      /\ Bounded(g_timeline) /\ Bounded(timeline_rb)
  BY DEF Init, Within, Across, Bounded
<1> QED BY <1>1, <1>2, <1>3 DEF IInv

\* What the steps of the driver around the tracepoints leave alone.
LogUnchanged == UNCHANGED <<timeline_rb, g_timeline>>

\* A step that writes no record keeps the order when answered only grows.
LEMMA QuietStep ==
  ASSUME IInv, LogUnchanged, Types', Numbers', answered <= answered'
  PROVE  IInv'
<1>1. Bounded(g_timeline)' /\ Bounded(timeline_rb)'
  <2>3. \A r \in Rec : r.of \in Nat
    BY DEF Rec
  <2>1. \A i \in DOMAIN g_timeline : g_timeline[i].of \in Nat
    BY <2>3 DEF IInv, Types
  <2>2. \A i \in DOMAIN timeline_rb : timeline_rb[i].of \in Nat
    BY <2>3 DEF IInv, Types
  <2> QED BY <2>1, <2>2 DEF IInv, LogUnchanged, Bounded, Types
<1>2. (Within(g_timeline) /\ Within(timeline_rb) /\ Across(g_timeline, timeline_rb))'
  BY DEF IInv, LogUnchanged, Within, Across, MayPrecede
<1> QED BY <1>1, <1>2 DEF IInv

\* Every step of the driver, the programs and the reporter keeps the
\* invariant.
LEMMA TimelineStep == IInv /\ [Next]_vars => IInv'
<1> SUFFICES ASSUME IInv, [Next]_vars PROVE IInv'
  OBVIOUS
<1> USE DEF At, Goto, Hit, driverVars, traceVars, userVars
<1>1. Types /\ Numbers
  BY DEF IInv
<1>2. "linkd" \in Contexts /\ "timer" \in Contexts /\ "work" \in Contexts
      /\ "ctl" \in Contexts /\ Writers \subseteq Contexts
  BY DEF Contexts, Writers
<1>3. CASE PushRx \/ InjectFault \/ Queued \/ ForceRecovery \/ Stop \/ GenerateReports
  <2>1. UNCHANGED <<timeouts, scheduled, answered, timeline_rb, g_timeline, prog>>
    BY <1>3 DEF PushRx, InjectFault, Queued, ForceRecovery, Stop, GenerateReports
  <2>2. UNCHANGED pc \/ \E p : \/ pc' = [pc EXCEPT !["linkd"] = p]
                              \/ pc' = [pc EXCEPT !["ctl"] = p]
    BY <1>3 DEF PushRx, InjectFault, Queued, ForceRecovery, Stop, GenerateReports
  <2>3. Types' /\ LogUnchanged /\ answered <= answered'
    BY <1>1, <1>2, <2>1, <2>2 DEF Types, LogUnchanged, Tracepoint
  <2>4. Numbers'
    BY <1>1, <1>2, <2>1, <2>2 DEF Types, Numbers
  <2> QED BY <2>3, <2>4, QuietStep
<1>10. ASSUME NEW c \in Writers, WriteTx(c)
       PROVE  IInv'
  <2>1. /\ UNCHANGED <<timeouts, scheduled, answered, timeline_rb, g_timeline>>
        /\ pc' = [pc EXCEPT ![c] = "enter"]
        /\ prog' = [prog EXCEPT ![c] = "frame_received"]
    BY <1>10 DEF WriteTx
  <2>2. c \in Contexts /\ c # "timer"
    BY <1>2 DEF Writers
  <2>3. Types' /\ LogUnchanged /\ answered <= answered'
    BY <1>1, <2>1, <2>2 DEF Types, LogUnchanged, Tracepoint
  <2>4. Numbers'
    BY <1>1, <1>2, <2>1, <2>2 DEF Types, Numbers
  <2> QED BY <2>3, <2>4, QuietStep
<1>4. CASE TimerExpires \/ TimerSchedules \/ WorkStarts
  <2>1. Types' /\ LogUnchanged
    <3>1. /\ \E p : \/ pc' = [pc EXCEPT !["timer"] = p]
                    \/ pc' = [pc EXCEPT !["work"] = p]
          /\ \/ UNCHANGED prog
             \/ prog' = [prog EXCEPT !["timer"] = "timeout_detected"]
             \/ prog' = [prog EXCEPT !["work"] = "recovery_queued"]
      BY <1>4 DEF TimerExpires, TimerSchedules, WorkStarts
    <3>2. LogUnchanged
      BY <1>4 DEF TimerExpires, TimerSchedules, WorkStarts, LogUnchanged
    <3>3. /\ timeouts' \in {timeouts, timeouts + 1}
          /\ scheduled' \in {scheduled, timeouts}
          /\ answered' \in {answered, scheduled}
      BY <1>4 DEF TimerExpires, TimerSchedules, WorkStarts
    <3>4. DOMAIN pc' = Contexts /\ prog' \in [Contexts -> Tracepoint]
      BY <1>1, <3>1 DEF Types, Tracepoint, Counted
    <3> QED BY <1>1, <3>2, <3>3, <3>4 DEF Types, LogUnchanged
  <2>2. CASE TimerExpires
    <3>1. /\ timeouts' = timeouts + 1 /\ UNCHANGED <<scheduled, answered>>
          /\ UNCHANGED prog \/ prog' = [prog EXCEPT !["timer"] = "timeout_detected"]
      BY <2>2 DEF TimerExpires
    <3> QED BY <1>1, <1>2, <2>1, <3>1, QuietStep DEF Types, Numbers
  <2>3. CASE TimerSchedules
    <3>1. /\ scheduled' = timeouts /\ UNCHANGED <<timeouts, answered, prog>>
          /\ pc' = [pc EXCEPT !["timer"] = "idle"]
      BY <2>3 DEF TimerSchedules
    <3> QED BY <1>1, <1>2, <2>1, <3>1, QuietStep DEF Types, Numbers
  <2>4. CASE WorkStarts
    <3>1. /\ answered' = scheduled /\ UNCHANGED <<timeouts, scheduled>>
          /\ pc' = [pc EXCEPT !["work"] = "enter"]
          /\ prog' = [prog EXCEPT !["work"] = "recovery_queued"]
      BY <2>4 DEF WorkStarts
    <3> QED BY <1>1, <1>2, <2>1, <3>1, QuietStep DEF Types, Numbers
  <2> QED BY <1>4, <2>2, <2>3, <2>4
<1>5. ASSUME NEW c \in Contexts, Push(c) \/ Enter(c) \/ RaiseFlag(c) \/ ClearFlag(c)
      PROVE  IInv'
  <2>1. /\ pc[c] # "idle" /\ \E p : pc' = [pc EXCEPT ![c] = p]
        /\ UNCHANGED <<timeouts, scheduled, answered, timeline_rb, g_timeline>>
        /\ UNCHANGED prog \/ prog' = [prog EXCEPT ![c] = "frame_received"]
    BY <1>5 DEF Push, Enter, RaiseFlag, ClearFlag
  <2>2. Types' /\ LogUnchanged /\ answered <= answered'
    BY <1>1, <2>1 DEF Types, LogUnchanged, Tracepoint
  <2>3. pc'["timer"] # "idle" => pc["timer"] # "idle"
    BY <1>1, <1>2, <2>1 DEF Types
  <2>4. \A d \in Contexts : prog'[d] = "timeout_detected" => d = "timer"
    <3>1. CASE UNCHANGED prog
      BY <1>1, <3>1 DEF Numbers
    <3>2. CASE prog' = [prog EXCEPT ![c] = "frame_received"]
      BY <1>1, <3>2 DEF Types, Numbers
    <3> QED BY <2>1, <3>1, <3>2
  <2>5. /\ timeouts' = timeouts /\ scheduled' = scheduled /\ answered' = answered
        /\ answered <= scheduled /\ scheduled <= timeouts
        /\ pc["timer"] # "idle" => scheduled < timeouts
    BY <1>1, <2>1 DEF Numbers
  <2>6. Numbers'
    BY <2>3, <2>4, <2>5 DEF Numbers
  <2> QED BY <2>2, <2>6, QuietStep
<1>6. ASSUME NEW c \in Contexts, Reserve(c)
      PROVE  IInv'
  <2>1. Numbers' /\ UNCHANGED <<answered, timeouts, scheduled, g_timeline>>
    <3>1. /\ pc[c] # "idle" /\ \E p : pc' = [pc EXCEPT ![c] = p]
          /\ UNCHANGED <<answered, timeouts, scheduled, g_timeline, prog>>
      BY <1>6 DEF Reserve
    <3>2. pc'["timer"] # "idle" => pc["timer"] # "idle"
      BY <1>1, <1>2, <3>1 DEF Types
    <3> QED BY <1>1, <3>1, <3>2 DEF Numbers
  <2>2. CASE UNCHANGED timeline_rb
    <3>1. Types' /\ LogUnchanged /\ answered <= answered'
      BY <1>1, <1>6, <2>2 DEF Reserve, Types, LogUnchanged
    <3> QED BY <2>1, <3>1, QuietStep
  <2>3. CASE timeline_rb' = Append(timeline_rb, Record(c))
    <3>1. /\ Record(c) \in Rec
          /\ Record(c).kind = "RECOVERY" => Record(c).of <= answered
          /\ Record(c).kind = "TIMEOUT" => answered < Record(c).of
      BY <1>1, <1>6, RecordFits DEF Reserve
    <3>2. /\ timeline_rb' \in Seq(Rec)
          /\ Within(timeline_rb') /\ Across(g_timeline, timeline_rb')
          /\ \A i \in DOMAIN timeline_rb' :
               timeline_rb'[i].kind = "RECOVERY" => timeline_rb'[i].of <= answered
      <4> HIDE DEF At, Goto, Hit, driverVars, traceVars, userVars
      <4>1. /\ timeline_rb \in Seq(Rec) /\ g_timeline \in Seq(Rec) /\ answered \in Nat
            /\ Within(timeline_rb) /\ Across(g_timeline, timeline_rb)
            /\ \A i \in DOMAIN g_timeline :
                 g_timeline[i].kind = "RECOVERY" => g_timeline[i].of <= answered
            /\ \A i \in DOMAIN timeline_rb :
                 timeline_rb[i].kind = "RECOVERY" => timeline_rb[i].of <= answered
        BY DEF IInv, Types, Bounded
      <4> QED BY <2>3, <3>1, <4>1, AppendOrdered
    <3>3. Types'
      BY <1>1, <1>6, <2>1, <3>2 DEF Reserve, Types
    <3>4. Within(g_timeline)' /\ Bounded(g_timeline)'
      BY <2>1 DEF IInv, Within, Bounded
    <3>5. Within(timeline_rb)' /\ Across(g_timeline, timeline_rb)' /\ Bounded(timeline_rb)'
      BY <2>1, <3>2 DEF Within, Across, Bounded
    <3> QED BY <2>1, <3>3, <3>4, <3>5 DEF IInv
  <2> QED BY <1>6, <2>2, <2>3 DEF Reserve
<1>7. ASSUME NEW c \in Contexts, Submit(c)
      PROVE  IInv'
  <2> DEFINE u == timeline_rb'
  <2>1. Numbers' /\ UNCHANGED <<answered, timeouts, scheduled, g_timeline>>
    BY <1>1, <1>7 DEF Submit, Types, Numbers
  <2>2. /\ timeline_rb \in Seq(Rec) /\ g_timeline \in Seq(Rec)
        /\ \A i \in DOMAIN timeline_rb : timeline_rb[i] \in Rec
    BY <1>1 DEF Types
  <2>3. /\ DOMAIN u = DOMAIN timeline_rb
        /\ \A i \in DOMAIN timeline_rb :
             u[i] = IF timeline_rb[i].by = c
                      THEN [timeline_rb[i] EXCEPT !.busy = FALSE] ELSE timeline_rb[i]
        /\ u = [i \in DOMAIN timeline_rb |-> u[i]]
    BY <1>7 DEF Submit
  <2> HIDE DEF u
  <2>4. \A i \in DOMAIN timeline_rb :
          u[i] \in Rec /\ u[i].kind = timeline_rb[i].kind /\ u[i].of = timeline_rb[i].of
    BY <2>2, <2>3 DEF Rec
  <2>5. u \in Seq(Rec)
    <3>1. DOMAIN timeline_rb = 1..Len(timeline_rb) /\ Len(timeline_rb) \in Nat
      BY <2>2
    <3> QED BY <3>1, <2>3, <2>4
  <2>6. Within(u) /\ Across(g_timeline, u)
    <3>1. Within(timeline_rb) /\ Across(g_timeline, timeline_rb)
      BY DEF IInv
    <3> QED BY <3>1, <2>2, <2>3, <2>4, <2>5, SameOrder
  <2>7. Types'
    BY <1>1, <1>7, <2>1, <2>5 DEF Submit, Types, u
  <2>8. Within(g_timeline)' /\ Bounded(g_timeline)'
    BY <2>1 DEF IInv, Within, Bounded
  <2>9. Bounded(timeline_rb)'
    <3>1. \A i \in DOMAIN u : u[i].kind = "RECOVERY" => u[i].of <= answered
      BY <2>3, <2>4 DEF IInv, Bounded
    <3> QED BY <3>1, <2>1 DEF Bounded, u
  <2>10. Within(timeline_rb)' /\ Across(g_timeline, timeline_rb)'
    BY <2>1, <2>6 DEF Within, Across, u
  <2> QED BY <2>1, <2>7, <2>8, <2>9, <2>10 DEF IInv
<1>8. CASE Consume
  <2>1. Numbers' /\ UNCHANGED <<answered, timeouts, scheduled, pc, prog>>
    BY <1>1, <1>8 DEF Consume, Types, Numbers
  <2>2. /\ timeline_rb \in Seq(Rec) /\ g_timeline \in Seq(Rec) /\ timeline_rb # <<>>
        /\ Within(timeline_rb) /\ Within(g_timeline) /\ Across(g_timeline, timeline_rb)
    BY <1>8 DEF IInv, Types, Consume, Readable
  <2>3. /\ timeline_rb' = Tail(timeline_rb)
        /\ g_timeline' \in {g_timeline, Append(g_timeline, Head(timeline_rb))}
    BY <1>8 DEF Consume
  <2>4. /\ Tail(timeline_rb) \in Seq(Rec) /\ Append(g_timeline, Head(timeline_rb)) \in Seq(Rec)
        /\ Within(Tail(timeline_rb)) /\ Across(g_timeline, Tail(timeline_rb))
        /\ Within(Append(g_timeline, Head(timeline_rb)))
        /\ Across(Append(g_timeline, Head(timeline_rb)), Tail(timeline_rb))
    BY <2>2, ConsumeOrdered
  <2>5. /\ timeline_rb' \in Seq(Rec) /\ g_timeline' \in Seq(Rec)
        /\ Within(timeline_rb') /\ Within(g_timeline') /\ Across(g_timeline', timeline_rb')
    BY <2>2, <2>3, <2>4
  <2>6. Types'
    BY <1>1, <2>1, <2>5 DEF Types
  <2>7. /\ \A i \in DOMAIN timeline_rb' : \E k \in DOMAIN timeline_rb : timeline_rb'[i] = timeline_rb[k]
        /\ \A i \in DOMAIN g_timeline' :
             \/ \E k \in DOMAIN g_timeline : g_timeline'[i] = g_timeline[k]
             \/ \E k \in DOMAIN timeline_rb : g_timeline'[i] = timeline_rb[k]
    <3>1. /\ Len(Tail(timeline_rb)) = Len(timeline_rb) - 1
          /\ \A i \in 1..Len(Tail(timeline_rb)) : Tail(timeline_rb)[i] = timeline_rb[i + 1]
          /\ Head(timeline_rb) = timeline_rb[1] /\ 1 \in DOMAIN timeline_rb
          /\ DOMAIN timeline_rb = 1..Len(timeline_rb) /\ Len(timeline_rb) \in Nat
          /\ DOMAIN Tail(timeline_rb) = 1..Len(Tail(timeline_rb))
      BY <2>2
    <3>2. \A i \in DOMAIN Tail(timeline_rb) :
            i + 1 \in DOMAIN timeline_rb /\ Tail(timeline_rb)[i] = timeline_rb[i + 1]
      BY <3>1
    <3>3. /\ DOMAIN g_timeline = 1..Len(g_timeline) /\ Len(g_timeline) \in Nat
          /\ Len(Append(g_timeline, Head(timeline_rb))) = Len(g_timeline) + 1
          /\ \A i \in 1..Len(g_timeline) :
               Append(g_timeline, Head(timeline_rb))[i] = g_timeline[i]
          /\ Append(g_timeline, Head(timeline_rb))[Len(g_timeline) + 1] = Head(timeline_rb)
      BY <2>2, <3>1
    <3>4. DOMAIN Append(g_timeline, Head(timeline_rb)) = 1..(Len(g_timeline) + 1)
      BY <2>4, <3>3
    <3> QED BY <3>1, <3>2, <3>3, <3>4, <2>3
  <2>8. Bounded(timeline_rb)' /\ Bounded(g_timeline)'
    BY <2>1, <2>7 DEF IInv, Bounded
  <2> QED BY <2>1, <2>5, <2>6, <2>8 DEF IInv, Within, Across
<1>9. CASE UNCHANGED vars
  <2>1. Types' /\ LogUnchanged /\ answered <= answered'
    BY <1>1, <1>9 DEF vars, Types, LogUnchanged
  <2>2. Numbers'
    BY <1>1, <1>9 DEF vars, Numbers
  <2> QED BY <2>1, <2>2, QuietStep
<1> QED BY <1>3, <1>4, <1>5, <1>6, <1>7, <1>8, <1>9, <1>10 DEF Next, Driver, Program

\* The two parts of the log in order and everything kept before everything
\* still in the ring: that is the order of the report.
LEMMA OrderedReport == IInv => CausalOrder
<1> SUFFICES ASSUME IInv,
                    NEW i \in 1..Len(Recorded), NEW j \in 1..Len(Recorded),
                    Recorded[i].kind = "RECOVERY", Recorded[j].kind = "TIMEOUT",
                    Recorded[j].of <= Recorded[i].of
             PROVE  j < i
  BY DEF CausalOrder
<1> DEFINE s == g_timeline
           t == timeline_rb
<1>1. /\ s \in Seq(Rec) /\ t \in Seq(Rec)
      /\ Within(s) /\ Within(t) /\ Across(s, t)
  BY DEF IInv, Types
<1> HIDE DEF s, t
<1>2. /\ DOMAIN s = 1..Len(s) /\ DOMAIN t = 1..Len(t) /\ Len(s) \in Nat /\ Len(t) \in Nat
      /\ \A k \in DOMAIN s : s[k] \in Rec
      /\ \A k \in DOMAIN t : t[k] \in Rec
  BY <1>1
<1>3. Recorded = s \o t
  BY DEF Recorded, s, t
<1>4. /\ Len(s \o t) = Len(s) + Len(t)
      /\ \A k \in 1..(Len(s) + Len(t)) :
           (s \o t)[k] = IF k <= Len(s) THEN s[k] ELSE t[k - Len(s)]
  BY <1>1
<1>5. ASSUME NEW k \in 1..Len(Recorded)
      PROVE  \/ k \in DOMAIN s /\ Recorded[k] = s[k]
             \/ k - Len(s) \in DOMAIN t /\ Recorded[k] = t[k - Len(s)] /\ k > Len(s)
  <2>1. k \in 1..(Len(s) + Len(t)) /\ Recorded[k] = (s \o t)[k]
    BY <1>3, <1>4
  <2>2. CASE k <= Len(s)
    BY <2>1, <2>2, <1>2, <1>4
  <2>3. CASE ~(k <= Len(s))
    <3>1. Recorded[k] = t[k - Len(s)]
      BY <2>1, <2>3, <1>4
    <3> QED BY <3>1, <2>1, <2>3, <1>2
  <2> QED BY <2>2, <2>3
<1>6. Recorded[i].of \in Nat /\ Recorded[j].of \in Nat
  BY <1>2, <1>5 DEF Rec
<1>7. ~MayPrecede(Recorded[i], Recorded[j]) /\ i # j
  BY <1>6 DEF MayPrecede
<1>8. i \in Nat /\ j \in Nat
  BY <1>2, <1>3, <1>4
<1>9. CASE i \in DOMAIN s /\ j \in DOMAIN s
  <2>1. Recorded[i] = s[i] /\ Recorded[j] = s[j]
    BY <1>9, <1>2, <1>5
  <2> QED BY <2>1, <1>1, <1>7, <1>8, <1>9 DEF Within
<1>10. CASE i \in DOMAIN s /\ j \notin DOMAIN s
  BY <1>10, <1>1, <1>2, <1>5, <1>7 DEF Across
<1>11. CASE i \notin DOMAIN s /\ j \in DOMAIN s
  BY <1>11, <1>2, <1>5, <1>8
<1>12. CASE i \notin DOMAIN s /\ j \notin DOMAIN s
  <2>1. /\ i - Len(s) \in DOMAIN t /\ Recorded[i] = t[i - Len(s)]
        /\ j - Len(s) \in DOMAIN t /\ Recorded[j] = t[j - Len(s)]
    BY <1>12, <1>5
  <2>2. ~(i - Len(s) < j - Len(s))
    BY <2>1, <1>1, <1>7 DEF Within
  <2> QED BY <2>2, <1>2, <1>7, <1>8
<1> QED BY <1>9, <1>10, <1>11, <1>12

\* A recovery is never listed before a timeout it answers: the tracepoint of
\* hb_timer_fn comes before safety_recovery_schedule, and neither the ring nor
\* handle_rb_event changes the order of what they keep.
THEOREM TimelineCausal == Spec => []CausalOrder
<1>1. Init => IInv
  BY TimelineInit
<1>2. IInv /\ [Next]_vars => IInv'
  BY TimelineStep
<1>3. IInv => CausalOrder
  BY OrderedReport
<1> QED BY <1>1, <1>2, <1>3, PTL DEF Spec

-----------------------------------------------------------------------------
(* Counting the records of a kind. *)

\* The places of s that hold a record in E, and how many they are.
Where(s, E) == {i \in 1 .. Len(s) : s[i] \in E}
HowMany(s, E) == Cardinality(Where(s, E))

\* How many they are is a number.
LEMMA HowManyType ==
  ASSUME NEW s \in Seq(Rec), NEW E
  PROVE  IsFiniteSet(Where(s, E)) /\ HowMany(s, E) \in Nat
PROOF
  <1>1. Len(s) \in Nat
    BY LenProperties
  <1>2. IsFiniteSet(1 .. Len(s))
    BY <1>1, FS_Interval
  <1>3. Where(s, E) \in SUBSET (1 .. Len(s))
    BY DEF Where
  <1> QED
    BY <1>2, <1>3, FS_Subset, FS_CardinalityType DEF HowMany

\* Moving a set of places along keeps their number.
LEMMA ShiftedPlaces ==
  ASSUME NEW A \in SUBSET Nat, IsFiniteSet(A), NEW k \in Nat
  PROVE  LET B == {a + k : a \in A}
         IN  IsFiniteSet(B) /\ Cardinality(B) = Cardinality(A)
PROOF
  <1> DEFINE B == {a + k : a \in A}
             f == [a \in A |-> a + k]
  <1> SUFFICES IsFiniteSet(B) /\ Cardinality(B) = Cardinality(A)
    OBVIOUS
  <1>1. \A a, b \in A : a + k = b + k => a = b
    OBVIOUS
  <1>2. f \in [A -> B]
    OBVIOUS
  <1>3. f \in Bijection(A, B)
    <2>1. \A a, b \in A : f[a] = f[b] => a = b
      BY <1>1
    <2>2. \A b \in B : \E a \in A : f[a] = b
      OBVIOUS
    <2> QED
      BY <1>2, <2>1, <2>2 DEF Bijection, Injection, Surjection, IsInjective
  <1>4. ExistsBijection(A, B)
    BY <1>3 DEF ExistsBijection
  <1> QED
    BY <1>4, FS_Bijection

\* Of two sequences in a row (the kept events, then the ring).
LEMMA HowManyConcat ==
  ASSUME NEW s \in Seq(Rec), NEW t \in Seq(Rec), NEW E
  PROVE  HowMany(s \o t, E) = HowMany(s, E) + HowMany(t, E)
PROOF
  <1> DEFINE n == Len(s)
             A == Where(s, E)
             T == Where(t, E)
             B == {i + n : i \in T}
  <1>1. /\ n \in Nat /\ Len(t) \in Nat /\ Len(s \o t) = n + Len(t)
        /\ \A i \in 1 .. (n + Len(t)) :
             (s \o t)[i] = IF i <= n THEN s[i] ELSE t[i - n]
    BY ConcatProperties, LenProperties
  <1>2. IsFiniteSet(A) /\ IsFiniteSet(T)
    BY HowManyType
  <1>3. IsFiniteSet(B) /\ Cardinality(B) = Cardinality(T)
    <2>1. T \in SUBSET Nat
      BY DEF Where
    <2> HIDE DEF T, n
    <2> QED
      BY <1>1, <1>2, <2>1, ShiftedPlaces
  <1>4. A \cap B = {}
    BY <1>1 DEF Where
  <1>5. Where(s \o t, E) = A \cup B
    <2>1. ASSUME NEW i \in Where(s \o t, E) PROVE i \in A \cup B
      <3>1. i \in 1 .. (n + Len(t)) /\ (s \o t)[i] \in E
        BY <1>1 DEF Where
      <3>2. CASE i <= n
        BY <1>1, <3>1, <3>2 DEF Where
      <3>3. CASE ~(i <= n)
        <4>1. i - n \in 1 .. Len(t) /\ t[i - n] \in E /\ i = (i - n) + n
          BY <1>1, <3>1, <3>3
        <4>2. i - n \in T
          BY <4>1 DEF Where
        <4> QED
          BY <4>1, <4>2
      <3> QED
        BY <3>2, <3>3
    <2>2. ASSUME NEW i \in A PROVE i \in Where(s \o t, E)
      <3>1. i \in 1 .. n /\ s[i] \in E
        BY DEF Where
      <3>2. i \in 1 .. (n + Len(t)) /\ i <= n
        BY <1>1, <3>1
      <3> QED
        BY <1>1, <3>1, <3>2 DEF Where
    <2>3. ASSUME NEW j \in T PROVE j + n \in Where(s \o t, E)
      <3>1. j \in 1 .. Len(t) /\ t[j] \in E
        BY DEF Where
      <3>2. j + n \in 1 .. (n + Len(t)) /\ ~(j + n <= n) /\ (j + n) - n = j
        BY <1>1, <3>1
      <3> QED
        BY <1>1, <3>1, <3>2 DEF Where
    <2> QED
      BY <2>1, <2>2, <2>3
  <1> HIDE DEF A, B, T
  <1>6. Cardinality(A \cup B) = Cardinality(A) + Cardinality(B) - Cardinality(A \cap B)
    BY <1>2, <1>3, FS_Union
  <1>7. Cardinality(A \cap B) = 0 /\ Cardinality(A) \in Nat /\ Cardinality(T) \in Nat
    BY <1>2, <1>4, FS_EmptySet, FS_CardinalityType
  <1>8. Cardinality(A \cup B) = Cardinality(A) + Cardinality(T)
    BY <1>3, <1>6, <1>7
  <1> QED
    BY <1>5, <1>8 DEF HowMany, A, T

\* Of one record.
LEMMA HowManyOne ==
  ASSUME NEW r \in Rec, NEW E
  PROVE  <<r>> \in Seq(Rec) /\ HowMany(<<r>>, E) = IF r \in E THEN 1 ELSE 0
PROOF
  <1>1. <<r>> \in Seq(Rec) /\ Len(<<r>>) = 1 /\ <<r>>[1] = r
    OBVIOUS
  <1>2. 1 .. 1 = {1}
    OBVIOUS
  <1>3. CASE r \in E
    <2>1. Where(<<r>>, E) = {1}
      BY <1>1, <1>2, <1>3 DEF Where
    <2> QED
      BY <1>1, <1>3, <2>1, FS_Singleton DEF HowMany
  <1>4. CASE r \notin E
    <2>1. Where(<<r>>, E) = {}
      BY <1>1, <1>2, <1>4 DEF Where
    <2> QED
      BY <1>1, <1>4, <2>1, FS_EmptySet DEF HowMany
  <1> QED
    BY <1>3, <1>4

\* After a record is reserved or kept.
LEMMA HowManyAppend ==
  ASSUME NEW s \in Seq(Rec), NEW r \in Rec, NEW E
  PROVE  HowMany(Append(s, r), E) = HowMany(s, E) + (IF r \in E THEN 1 ELSE 0)
PROOF
  <1>1. Append(s, r) = s \o <<r>>
    BY AppendIsConcat
  <1>2. HowMany(s \o <<r>>, E) = HowMany(s, E) + HowMany(<<r>>, E)
    BY HowManyOne, HowManyConcat
  <1> QED
    BY <1>1, <1>2, HowManyOne

\* After the first record is consumed.
LEMMA HowManyTail ==
  ASSUME NEW s \in Seq(Rec), s # <<>>, NEW E
  PROVE  HowMany(s, E) = (IF Head(s) \in E THEN 1 ELSE 0) + HowMany(Tail(s), E)
PROOF
  <1>1. Head(s) \in Rec /\ Tail(s) \in Seq(Rec)
    BY HeadTailProperties
  <1>2. s = <<Head(s)>> \o Tail(s)
    <2>1. Len(s) \in Nat /\ Len(s) > 0 /\ Len(Tail(s)) = Len(s) - 1 /\ Head(s) = s[1]
          /\ \A i \in 1 .. Len(Tail(s)) : Tail(s)[i] = s[i + 1]
      BY HeadTailProperties, LenProperties, EmptySeq
    <2> DEFINE h == <<Head(s)>>
               u == h \o Tail(s)
    <2>2. h \in Seq(Rec) /\ Len(h) = 1 /\ h[1] = s[1]
      BY <1>1, <2>1
    <2> HIDE DEF h
    <2>3. /\ u \in Seq(Rec) /\ Len(u) = Len(s)
          /\ \A i \in 1 .. Len(s) : u[i] = IF i <= 1 THEN h[i] ELSE Tail(s)[i - 1]
      <3> DEFINE w == Tail(s)
      <3>1. w \in Seq(Rec)
        BY <1>1
      <3> HIDE DEF w
      <3>2. /\ h \o w \in Seq(Rec) /\ Len(h \o w) = Len(h) + Len(w)
            /\ \A i \in 1 .. (Len(h) + Len(w)) :
                 (h \o w)[i] = IF i <= Len(h) THEN h[i] ELSE w[i - Len(h)]
        BY <2>2, <3>1, ConcatProperties
      <3>3. Len(w) = Len(s) - 1
        BY <2>1 DEF w
      <3>4. Len(h) + Len(w) = Len(s)
        BY <2>1, <2>2, <3>3
      <3> QED
        BY <2>2, <3>2, <3>4 DEF w
    <2>4. ASSUME NEW i \in 1 .. Len(s) PROVE u[i] = s[i]
      <3>1. CASE i = 1
        BY <2>1, <2>2, <2>3, <3>1
      <3>2. CASE i # 1
        <4>1. i - 1 \in 1 .. Len(Tail(s)) /\ (i - 1) + 1 = i /\ ~(i <= 1)
          BY <2>1, <3>2
        <4> QED
          BY <2>1, <2>3, <4>1
      <3> QED
        BY <3>1, <3>2
    <2> HIDE DEF u
    <2>5. s = u
      BY <2>3, <2>4, SeqEqual
    <2> QED
      BY <2>5 DEF u, h
  <1>3. HowMany(<<Head(s)>> \o Tail(s), E) = HowMany(<<Head(s)>>, E) + HowMany(Tail(s), E)
    <2> DEFINE h == <<Head(s)>>
               w == Tail(s)
    <2>1. h \in Seq(Rec) /\ w \in Seq(Rec)
      BY <1>1, HowManyOne
    <2> HIDE DEF h, w
    <2>2. HowMany(h \o w, E) = HowMany(h, E) + HowMany(w, E)
      BY <2>1, HowManyConcat
    <2> QED
      BY <2>2 DEF h, w
  <1> QED
    BY <1>1, <1>2, <1>3, HowManyOne

\* After records have changed that stay in E or out of it (a submit).
LEMMA HowManySame ==
  ASSUME NEW s, NEW t, NEW E, Len(t) = Len(s),
         \A i \in 1 .. Len(s) : t[i] \in E <=> s[i] \in E
  PROVE  HowMany(t, E) = HowMany(s, E)
BY DEF HowMany, Where

-----------------------------------------------------------------------------
(* Every record was counted before it was reserved. *)

KindIs(k) == {e \in Rec : e.kind = k}

\* The records in E that are kept or still in the ring.
Listed(E) == HowMany(g_timeline, E) + HowMany(timeline_rb, E)

One(b) == IF b THEN 1 ELSE 0

\* The only context that hits a counted tracepoint.
OwnerOf(tp) == IF tp = "timeout_detected" THEN "timer" ELSE "work"

\* Its program has counted and not yet reserved.
InHand(tp) == pc[OwnerOf(tp)] \in {"raise", "reserve"} /\ prog[OwnerOf(tp)] = tp

Owners ==
  /\ tp_counters \in [Counted -> Nat]
  /\ \A c \in Contexts : /\ prog[c] \in Counted => c = OwnerOf(prog[c])
                         /\ pc[c] = "clear" => prog[c] = "frame_received"

CountedFirst ==
  \A tp \in Counted :
    Listed(KindIs(Kind(tp))) + One(InHand(tp)) <= tp_counters[tp]

ReportCovers ==
  reporter = "reported" =>
    \A tp \in Counted : HowMany(g_timeline, KindIs(Kind(tp))) <= counts[tp]

CountInv == IInv /\ Owners /\ CountedFirst /\ ReportCovers

\* A step leaves what is listed as it is, or loses records of it (a full
\* table), or it is a reserve that adds the record of its program.
LEMMA ListedStep ==
  ASSUME IInv, [Next]_vars, NEW E,
         \A e \in Rec : [e EXCEPT !.busy = FALSE] \in E <=> e \in E
  PROVE  /\ Listed(E) \in Nat /\ Listed(E)' \in Nat
         /\ \/ Listed(E)' <= Listed(E)
            \/ \E c \in Contexts :
                 /\ Reserve(c) /\ pc' = [pc EXCEPT ![c] = "submit"]
                 /\ Record(c) \in E
                 /\ Listed(E)' = Listed(E) + 1
PROOF
  <1> DEFINE g == g_timeline
             r == timeline_rb
             h == g_timeline'
             u == timeline_rb'
  <1>1. g \in Seq(Rec) /\ r \in Seq(Rec)
    BY DEF IInv, Types
  <1>2. h \in Seq(Rec) /\ u \in Seq(Rec)
    BY TimelineStep DEF IInv, Types
  <1>3. Listed(E) = HowMany(g, E) + HowMany(r, E)
        /\ Listed(E)' = HowMany(h, E) + HowMany(u, E)
    BY DEF Listed, HowMany, Where
  <1> HIDE DEF g, r, h, u
  <1>4. /\ HowMany(g, E) \in Nat /\ HowMany(r, E) \in Nat
        /\ HowMany(h, E) \in Nat /\ HowMany(u, E) \in Nat
    BY <1>1, <1>2, HowManyType
  <1>5. Listed(E) \in Nat /\ Listed(E)' \in Nat
    BY <1>3, <1>4
  <1>6. CASE g_timeline' = g_timeline /\ timeline_rb' = timeline_rb
    <2>1. h = g /\ u = r
      BY <1>6 DEF g, r, h, u
    <2>2. Listed(E)' = Listed(E)
      BY <1>3, <2>1
    <2> QED
      BY <1>5, <2>2
  <1>7. ASSUME NEW c \in Contexts, Reserve(c), timeline_rb' = Append(timeline_rb, Record(c)),
               pc' = [pc EXCEPT ![c] = "submit"]
        PROVE  \/ Listed(E)' <= Listed(E)
               \/ /\ Record(c) \in E
                  /\ Listed(E)' = Listed(E) + 1
    <2>1. h = g /\ u = Append(r, Record(c))
      BY <1>7 DEF g, r, h, u, Reserve, userVars
    <2>2. Record(c) \in Rec
      BY <1>7, RecordFits DEF IInv, Reserve, At
    <2>3. HowMany(u, E) = HowMany(r, E) + (IF Record(c) \in E THEN 1 ELSE 0)
      BY <1>1, <2>1, <2>2, HowManyAppend
    <2>4. CASE Record(c) \in E
      BY <1>3, <1>4, <2>1, <2>3, <2>4
    <2>5. CASE Record(c) \notin E
      BY <1>3, <1>4, <2>1, <2>3, <2>5
    <2> QED
      BY <2>4, <2>5
  <1>8. ASSUME NEW c \in Contexts, Submit(c)
        PROVE  Listed(E)' <= Listed(E)
    <2>1. h = g /\ u = [i \in DOMAIN r |-> IF r[i].by = c THEN [r[i] EXCEPT !.busy = FALSE]
                                                         ELSE r[i]]
      BY <1>8 DEF g, r, h, u, Submit, userVars
    <2>2. DOMAIN r = 1 .. Len(r) /\ DOMAIN u = 1 .. Len(u) /\ Len(r) \in Nat /\ Len(u) \in Nat
          /\ \A i \in 1 .. Len(r) : r[i] \in Rec
      BY <1>1, <1>2, LenProperties, ElementOfSeq
    <2>3. Len(u) = Len(r)
      BY <2>1, <2>2
    <2>4. \A i \in 1 .. Len(r) : u[i] \in E <=> r[i] \in E
      BY <2>1, <2>2
    <2>5. HowMany(u, E) = HowMany(r, E)
      BY <2>3, <2>4, HowManySame
    <2>6. Listed(E)' = Listed(E)
      BY <1>3, <2>1, <2>5
    <2> QED
      BY <1>5, <2>6
  <1>9. CASE Consume
    <2>1. r # <<>> /\ u = Tail(r)
      BY <1>9 DEF r, u, Consume, Readable
    <2>2. h = g \/ h = Append(g, Head(r))
      BY <1>9 DEF g, h, r, Consume
    <2>3. HowMany(r, E) = (IF Head(r) \in E THEN 1 ELSE 0) + HowMany(u, E)
      BY <1>1, <2>1, HowManyTail
    <2>4. Head(r) \in Rec
      BY <1>1, <2>1, HeadTailProperties
    <2>5. h = Append(g, Head(r))
            => HowMany(h, E) = HowMany(g, E) + (IF Head(r) \in E THEN 1 ELSE 0)
      BY <1>1, <2>4, HowManyAppend
    <2>6. CASE Head(r) \in E
      BY <1>3, <1>4, <2>2, <2>3, <2>5, <2>6
    <2>7. CASE Head(r) \notin E
      BY <1>3, <1>4, <2>2, <2>3, <2>5, <2>7
    <2> QED
      BY <2>6, <2>7
  <1>10. CASE UNCHANGED vars
    BY <1>6, <1>10 DEF vars
  <1>11. CASE Driver
    BY <1>6, <1>11 DEF Driver, PushRx, Queued, InjectFault, WriteTx, ForceRecovery, TimerExpires,
         TimerSchedules, WorkStarts, Push, traceVars, userVars
  <1>12. ASSUME NEW c \in Contexts, Enter(c) \/ RaiseFlag(c) \/ ClearFlag(c)
         PROVE  Listed(E)' <= Listed(E)
    <2>1. g_timeline' = g_timeline /\ timeline_rb' = timeline_rb
      BY <1>12 DEF Enter, RaiseFlag, ClearFlag, userVars
    <2>2. h = g /\ u = r
      BY <2>1 DEF g, r, h, u
    <2>3. Listed(E)' = Listed(E)
      BY <1>3, <2>2
    <2> QED
      BY <1>5, <2>3
  <1>13. ASSUME NEW c \in Contexts, Reserve(c)
         PROVE  \/ Listed(E)' <= Listed(E)
                \/ /\ Reserve(c) /\ pc' = [pc EXCEPT ![c] = "submit"]
                   /\ Record(c) \in E
                   /\ Listed(E)' = Listed(E) + 1
    <2>1. CASE timeline_rb' = timeline_rb
      <3>1. h = g /\ u = r
        BY <1>13, <2>1 DEF g, r, h, u, Reserve, userVars
      <3>2. Listed(E)' = Listed(E)
        BY <1>3, <3>1
      <3> QED
        BY <1>5, <3>2
    <2>2. CASE timeline_rb' = Append(timeline_rb, Record(c)) /\ pc' = [pc EXCEPT ![c] = "submit"]
      BY <1>7, <1>13, <2>2
    <2> QED
      BY <1>13, <2>1, <2>2 DEF Reserve, Goto
  <1>14. CASE Stop \/ GenerateReports
    BY <1>6, <1>14 DEF Stop, GenerateReports, traceVars
  <1>15. \/ UNCHANGED vars \/ Driver \/ Consume \/ Stop \/ GenerateReports
         \/ \E c \in Contexts : Enter(c) \/ RaiseFlag(c) \/ ClearFlag(c) \/ Reserve(c) \/ Submit(c)
    BY DEF Next, Program
  <1>16. CASE \E c \in Contexts : Enter(c) \/ RaiseFlag(c) \/ ClearFlag(c) \/ Reserve(c) \/ Submit(c)
    <2>1. PICK c \in Contexts : Enter(c) \/ RaiseFlag(c) \/ ClearFlag(c) \/ Reserve(c) \/ Submit(c)
      BY <1>16
    <2> QED
      BY <1>5, <1>8, <1>12, <1>13, <2>1
  <1> QED
    BY <1>5, <1>9, <1>10, <1>11, <1>14, <1>15, <1>16

\* Outside its first steps no program moves towards a record: every
\* context stays where it is or goes somewhere nothing is in hand.
OnTheWay == {"raise", "clear", "reserve"}
Quiet ==
  /\ UNCHANGED tp_counters
  /\ \A c \in Contexts :
       \/ pc'[c] = pc[c] /\ prog'[c] = prog[c]
       \/ pc'[c] \notin OnTheWay

\* Only the start of a program and what it does to the flag do more.
LEMMA QuietSteps ==
  ASSUME IInv, [Next]_vars
  PROVE  Quiet \/ \E c \in Contexts : Enter(c) \/ RaiseFlag(c) \/ ClearFlag(c)
PROOF
  <1>1. DOMAIN pc = Contexts /\ prog \in [Contexts -> Tracepoint]
    BY DEF IInv, Types
  <1>2. ASSUME NEW d \in Contexts, pc'[d] \notin OnTheWay,
               UNCHANGED tp_counters,
               \A c \in Contexts : c # d => pc'[c] = pc[c] /\ prog'[c] = prog[c]
        PROVE  Quiet
    BY <1>2 DEF Quiet
  <1>3. CASE UNCHANGED <<pc, prog, tp_counters>>
    BY <1>3 DEF Quiet
  <1>4. ASSUME NEW d \in Contexts
        PROVE  After(d) \notin OnTheWay
    BY DEF After, OnTheWay
  <1>5. "linkd" \in Contexts /\ "timer" \in Contexts /\ "work" \in Contexts
        /\ "ctl" \in Contexts /\ Writers \subseteq Contexts
    BY DEF Contexts, Writers
  <1> USE DEF At, Goto, Hit, traceVars, OnTheWay
  <1>6. CASE PushRx
    <2>1. /\ pc' = [pc EXCEPT !["linkd"] = "push"]
          /\ UNCHANGED <<tp_counters, prog>>
      BY <1>6 DEF PushRx
    <2>2. /\ pc'["linkd"] \notin OnTheWay
          /\ \A c \in Contexts : c # "linkd" => pc'[c] = pc[c] /\ prog'[c] = prog[c]
      BY <1>1, <1>5, <2>1
    <2> QED
      BY <1>2, <1>5, <2>1, <2>2
  <1>7. CASE Queued
    <2>1. /\ pc' = [pc EXCEPT !["linkd"] = "idle"]
          /\ UNCHANGED <<tp_counters, prog>>
      BY <1>7 DEF Queued
    <2>2. /\ pc'["linkd"] \notin OnTheWay
          /\ \A c \in Contexts : c # "linkd" => pc'[c] = pc[c] /\ prog'[c] = prog[c]
      BY <1>1, <1>5, <2>1
    <2> QED
      BY <1>2, <1>5, <2>1, <2>2
  <1>8. ASSUME NEW d \in Writers, WriteTx(d)
        PROVE  Quiet
    <2>1. /\ pc' = [pc EXCEPT ![d] = "enter"]
          /\ prog' = [prog EXCEPT ![d] = "frame_received"]
          /\ UNCHANGED tp_counters
      BY <1>8 DEF WriteTx
    <2>2. /\ d \in Contexts /\ pc'[d] \notin OnTheWay
          /\ \A c \in Contexts : c # d => pc'[c] = pc[c] /\ prog'[c] = prog[c]
      BY <1>1, <1>5, <2>1
    <2> QED
      BY <1>2, <2>1, <2>2
  <1>18. CASE InjectFault
    <2>1. /\ pc' = [pc EXCEPT !["ctl"] = "push"]
          /\ UNCHANGED <<tp_counters, prog>>
      BY <1>18 DEF InjectFault
    <2>2. /\ pc'["ctl"] \notin OnTheWay
          /\ \A c \in Contexts : c # "ctl" => pc'[c] = pc[c] /\ prog'[c] = prog[c]
      BY <1>1, <1>5, <2>1
    <2> QED
      BY <1>2, <1>5, <2>1, <2>2
  <1>9. CASE ForceRecovery \/ Stop \/ GenerateReports
    BY <1>3, <1>9 DEF ForceRecovery, Stop, GenerateReports
  <1>10. CASE TimerExpires
    <2>1. PICK p \in {"enter", "push"} :
            /\ pc' = [pc EXCEPT !["timer"] = p]
            /\ UNCHANGED prog \/ prog' = [prog EXCEPT !["timer"] = "timeout_detected"]
            /\ UNCHANGED tp_counters
      BY <1>10 DEF TimerExpires
    <2>2. /\ pc'["timer"] \notin OnTheWay
          /\ \A c \in Contexts : c # "timer" => pc'[c] = pc[c] /\ prog'[c] = prog[c]
      BY <1>1, <1>5, <2>1
    <2> QED
      BY <1>2, <1>5, <2>1, <2>2
  <1>11. CASE TimerSchedules
    <2>1. /\ pc' = [pc EXCEPT !["timer"] = "idle"]
          /\ UNCHANGED <<tp_counters, prog>>
      BY <1>11 DEF TimerSchedules
    <2>2. /\ pc'["timer"] \notin OnTheWay
          /\ \A c \in Contexts : c # "timer" => pc'[c] = pc[c] /\ prog'[c] = prog[c]
      BY <1>1, <1>5, <2>1
    <2> QED
      BY <1>2, <1>5, <2>1, <2>2
  <1>12. CASE WorkStarts
    <2>1. /\ pc' = [pc EXCEPT !["work"] = "enter"]
          /\ prog' = [prog EXCEPT !["work"] = "recovery_queued"]
          /\ UNCHANGED tp_counters
      BY <1>12 DEF WorkStarts
    <2>2. /\ pc'["work"] \notin OnTheWay
          /\ \A c \in Contexts : c # "work" => pc'[c] = pc[c] /\ prog'[c] = prog[c]
      BY <1>1, <1>5, <2>1
    <2> QED
      BY <1>2, <1>5, <2>1, <2>2
  <1>13. ASSUME NEW d \in Contexts, Push(d)
         PROVE  Quiet
    <2>1. PICK p \in {"enter", "schedule", "idle"} :
            /\ pc' = [pc EXCEPT ![d] = p]
            /\ prog' = [prog EXCEPT ![d] = "frame_received"]
            /\ UNCHANGED tp_counters
      BY <1>13 DEF Push
    <2>2. /\ pc'[d] \notin OnTheWay
          /\ \A c \in Contexts : c # d => pc'[c] = pc[c] /\ prog'[c] = prog[c]
      BY <1>1, <1>5, <2>1
    <2> QED
      BY <1>2, <1>5, <2>1, <2>2
  <1>14. ASSUME NEW d \in Contexts, Reserve(d)
         PROVE  Quiet
    <2>1. PICK p \in {"submit", After(d)} :
            /\ pc' = [pc EXCEPT ![d] = p]
            /\ UNCHANGED <<tp_counters, prog>>
      BY <1>14 DEF Reserve
    <2>2. /\ pc'[d] \notin OnTheWay
          /\ \A c \in Contexts : c # d => pc'[c] = pc[c] /\ prog'[c] = prog[c]
      BY <1>1, <1>4, <1>5, <2>1
    <2> QED
      BY <1>2, <1>5, <2>1, <2>2
  <1>15. ASSUME NEW d \in Contexts, Submit(d)
         PROVE  Quiet
    <2>1. /\ pc' = [pc EXCEPT ![d] = After(d)]
          /\ UNCHANGED <<tp_counters, prog>>
      BY <1>15 DEF Submit
    <2>2. /\ pc'[d] \notin OnTheWay
          /\ \A c \in Contexts : c # d => pc'[c] = pc[c] /\ prog'[c] = prog[c]
      BY <1>1, <1>4, <1>5, <2>1
    <2> QED
      BY <1>2, <1>5, <2>1, <2>2
  <1>16. CASE Consume
    BY <1>3, <1>16 DEF Consume
  <1>17. CASE UNCHANGED vars
    BY <1>3, <1>17 DEF vars
  <1> QED
    BY <1>6, <1>7, <1>8, <1>9, <1>10, <1>11, <1>12, <1>13, <1>14, <1>15, <1>16, <1>17, <1>18
       DEF Next, Driver, Program

\* A counted tracepoint is hit by its own context only, and a program that is
\* about to clear the flag is the one of frame_received.
LEMMA OwnersStep ==
  ASSUME IInv, Owners, [Next]_vars
  PROVE  Owners'
PROOF
  <1>1. DOMAIN pc = Contexts /\ prog \in [Contexts -> Tracepoint]
    BY DEF IInv, Types
  <1>2. tp_counters' \in [Counted -> Nat]
    <2>1. ASSUME NEW c \in Contexts, Enter(c)
          PROVE  tp_counters' \in [Counted -> Nat]
      BY <2>1 DEF Enter, Owners
    <2>2. ASSUME NEW c \in Contexts, RaiseFlag(c) \/ ClearFlag(c)
          PROVE  tp_counters' \in [Counted -> Nat]
      BY <2>2 DEF RaiseFlag, ClearFlag, Owners
    <2>3. CASE Quiet
      BY <2>3 DEF Quiet, Owners
    <2> QED
      BY <2>1, <2>2, <2>3, QuietSteps
  <1>3. \/ UNCHANGED prog
        \/ \E d \in Contexts : prog' = [prog EXCEPT ![d] = "frame_received"]
        \/ prog' = [prog EXCEPT !["timer"] = "timeout_detected"]
        \/ prog' = [prog EXCEPT !["work"] = "recovery_queued"]
    <2>1. CASE Driver
      BY <2>1 DEF Driver, PushRx, Queued, InjectFault, WriteTx, ForceRecovery, TimerExpires,
           TimerSchedules, WorkStarts, Push, Hit, Contexts
    <2>2. CASE \E c \in Contexts : Program(c)
      BY <2>2 DEF Program, Enter, RaiseFlag, ClearFlag, Reserve, Submit
    <2>3. CASE Consume \/ Stop \/ GenerateReports \/ UNCHANGED vars
      BY <2>3 DEF Consume, Stop, GenerateReports, vars
    <2> QED
      BY <2>1, <2>2, <2>3 DEF Next
  <1>4. ASSUME NEW c \in Contexts, prog'[c] \in Counted
        PROVE  c = OwnerOf(prog'[c])
    <2>1. \/ prog'[c] = prog[c] \/ prog'[c] = "frame_received"
          \/ c = "timer" /\ prog'[c] = "timeout_detected"
          \/ c = "work" /\ prog'[c] = "recovery_queued"
      BY <1>1, <1>3
    <2> QED
      BY <1>4, <2>1 DEF Owners, OwnerOf, Counted
  <1>5. ASSUME NEW c \in Contexts, pc'[c] = "clear"
        PROVE  prog'[c] = "frame_received"
    <2>1. CASE Quiet
      BY <1>5, <2>1 DEF Quiet, Owners, OnTheWay
    <2>2. ASSUME NEW d \in Contexts, Enter(d)
          PROVE  prog'[c] = "frame_received"
      <3>1. prog' = prog
        BY <2>2 DEF Enter
      <3>2. CASE c # d
        BY <1>1, <1>5, <2>2, <3>1, <3>2 DEF Enter, Goto, Owners
      <3>3. CASE c = d
        <4>1. pc'[d] # "clear" \/ prog[d] = "frame_received"
          <5>1. pc'[d] = Second(d)
            BY <1>1, <2>2 DEF Enter, Goto
          <5>2. prog[d] # "frame_received" => Second(d) \in {"reserve", "raise"}
            BY <1>1 DEF Second, Tracepoint, Counted
          <5> QED
            BY <5>1, <5>2
        <4> QED
          BY <1>5, <3>1, <3>3, <4>1
      <3> QED
        BY <3>2, <3>3
    <2>3. ASSUME NEW d \in Contexts, RaiseFlag(d) \/ ClearFlag(d)
          PROVE  prog'[c] = "frame_received"
      <3>1. prog' = prog /\ pc' = [pc EXCEPT ![d] = "reserve"]
        BY <2>3 DEF RaiseFlag, ClearFlag, Goto
      <3> QED
        BY <1>1, <1>5, <3>1 DEF Owners
    <2> QED
      BY <2>1, <2>2, <2>3, QuietSteps
  <1> QED
    BY <1>2, <1>4, <1>5 DEF Owners

\* Submitting a record does not change its kind.
LEMMA BusyAside ==
  \A k : \A e \in Rec : [e EXCEPT !.busy = FALSE] \in KindIs(k) <=> e \in KindIs(k)
BY DEF KindIs, Rec

\* The kind of the record a program reserves.
LEMMA RecordOf ==
  ASSUME NEW c \in Contexts, prog \in [Contexts -> Tracepoint]
  PROVE  \A tp \in Counted : Record(c) \in KindIs(Kind(tp)) => prog[c] = tp
PROOF
  <1>1. Record(c).kind = Kind(prog[c])
    BY DEF Record
  <1>2. prog[c] \in {"timeout_detected", "recovery_queued", "frame_received"}
    BY DEF Tracepoint, Counted
  <1>3. \A tp \in Counted : Kind(prog[c]) = Kind(tp) => prog[c] = tp
    BY <1>2 DEF Kind, Counted
  <1> QED
    BY <1>1, <1>3 DEF KindIs

\* Every program counts before it reserves: what is listed of a tracepoint and
\* the record its program has in hand are all in the counter.
LEMMA CountedStep ==
  ASSUME IInv, Owners, CountedFirst, [Next]_vars
  PROVE  CountedFirst'
PROOF
  <1> SUFFICES ASSUME NEW tp \in Counted
               PROVE  Listed(KindIs(Kind(tp)))' + One(InHand(tp)') <= tp_counters'[tp]
    BY DEF CountedFirst, One
  <1> DEFINE E == KindIs(Kind(tp))
             o == OwnerOf(tp)
  <1>1. DOMAIN pc = Contexts /\ prog \in [Contexts -> Tracepoint]
    BY DEF IInv, Types
  <1>2. /\ o \in Contexts
        /\ \A c \in Contexts : prog[c] = tp => c = o
    BY DEF OwnerOf, Contexts, Owners
  <1>3. /\ InHand(tp) <=> pc[o] \in {"raise", "reserve"} /\ prog[o] = tp
        /\ InHand(tp)' <=> pc'[o] \in {"raise", "reserve"} /\ prog'[o] = tp
    BY DEF InHand
  <1>4. /\ Listed(E) \in Nat /\ Listed(E)' \in Nat
        /\ \/ Listed(E)' <= Listed(E)
           \/ \E c \in Contexts :
                /\ Reserve(c) /\ pc' = [pc EXCEPT ![c] = "submit"]
                /\ Record(c) \in E
                /\ Listed(E)' = Listed(E) + 1
    BY BusyAside, ListedStep
  <1>5. Listed(E) + One(InHand(tp)) <= tp_counters[tp]
    BY DEF CountedFirst
  <1>6. tp_counters[tp] \in Nat /\ tp_counters'[tp] \in Nat
    BY OwnersStep DEF Owners
  <1>7. tp # "frame_received"
    BY DEF Counted
  <1> HIDE DEF E, o
  <1>8. PICK n \in Nat, m \in Nat : n = Listed(E) /\ m = Listed(E)'
    BY <1>4
  <1>9. PICK a \in Nat, b \in Nat : a = tp_counters[tp] /\ b = tp_counters'[tp]
    BY <1>6
  <1>10. n + One(InHand(tp)) <= a
    BY <1>5, <1>8, <1>9
  <1>11. SUFFICES m + One(InHand(tp)') <= b
    BY <1>8, <1>9 DEF E
  <1>12. ASSUME m <= n, InHand(tp)' => InHand(tp), a <= b
         PROVE  m + One(InHand(tp)') <= b
    BY <1>10, <1>12 DEF One
  <1>13. ASSUME NEW c \in Contexts, Reserve(c), pc' = [pc EXCEPT ![c] = "submit"],
                Record(c) \in E, m = n + 1
         PROVE  m + One(InHand(tp)') <= b
    <2>1. prog[c] = tp
      BY <1>1, <1>13, RecordOf DEF E
    <2>2. c = o
      BY <1>2, <2>1
    <2>3. InHand(tp)
      BY <1>3, <1>13, <2>1, <2>2 DEF Reserve, At
    <2>4. ~InHand(tp)'
      BY <1>1, <1>2, <1>3, <1>13, <2>2
    <2>5. b = a
      BY <1>9, <1>13 DEF Reserve
    <2> QED
      BY <1>10, <1>13, <2>3, <2>4, <2>5 DEF One
  <1>14. ASSUME m <= n, Quiet
         PROVE  m + One(InHand(tp)') <= b
    <2>1. b = a
      BY <1>9, <1>14 DEF Quiet
    <2>2. InHand(tp)' => InHand(tp)
      BY <1>2, <1>3, <1>14 DEF Quiet, OnTheWay
    <2> QED
      BY <1>12, <1>14, <2>1, <2>2
  <1>15. ASSUME m <= n, NEW c \in Contexts, Enter(c)
         PROVE  m + One(InHand(tp)') <= b
    <2>1. b = a + (IF tp = prog[c] THEN 1 ELSE 0)
      BY <1>9, <1>15 DEF Enter, Owners
    <2>2. CASE prog[c] = tp
      BY <1>10, <1>15, <2>1, <2>2 DEF One
    <2>3. CASE prog[c] # tp
      <3>1. InHand(tp)' => InHand(tp)
        BY <1>1, <1>2, <1>3, <1>15, <2>3 DEF Enter, Goto
      <3> QED
        BY <1>12, <1>15, <2>1, <2>3, <3>1
    <2> QED
      BY <2>2, <2>3
  <1>16. ASSUME m <= n, NEW c \in Contexts, ClearFlag(c)
         PROVE  m + One(InHand(tp)') <= b
    <2>1. b = a
      BY <1>9, <1>16 DEF ClearFlag
    <2>2. prog[c] = "frame_received"
      BY <1>16 DEF ClearFlag, At, Owners
    <2>3. InHand(tp)' => InHand(tp)
      BY <1>1, <1>2, <1>3, <1>7, <1>16, <2>2 DEF ClearFlag, Goto
    <2> QED
      BY <1>12, <1>16, <2>1, <2>3
  <1>18. ASSUME m <= n, NEW c \in Contexts, RaiseFlag(c)
         PROVE  m + One(InHand(tp)') <= b
    <2>1. b = a
      BY <1>9, <1>18 DEF RaiseFlag
    <2>2. InHand(tp)' => InHand(tp)
      BY <1>1, <1>2, <1>3, <1>18 DEF RaiseFlag, At, Goto
    <2> QED
      BY <1>12, <1>18, <2>1, <2>2
  <1>17. CASE m <= n
    BY <1>14, <1>15, <1>16, <1>17, <1>18, QuietSteps
  <1> QED
    BY <1>4, <1>8, <1>13, <1>17

\* generate_reports reads the counters after the last record it keeps.
LEMMA ReportStep ==
  ASSUME IInv, CountedFirst, Owners, ReportCovers, [Next]_vars
  PROVE  ReportCovers'
PROOF
  <1> SUFFICES ASSUME reporter' = "reported", NEW tp \in Counted
               PROVE  HowMany(g_timeline', KindIs(Kind(tp))) <= counts'[tp]
    BY DEF ReportCovers, HowMany, Where
  <1>1. CASE GenerateReports
    <2>1. g_timeline' = g_timeline /\ counts' = tp_counters
      BY <1>1 DEF GenerateReports
    <2>2. /\ HowMany(g_timeline, KindIs(Kind(tp))) \in Nat
          /\ HowMany(timeline_rb, KindIs(Kind(tp))) \in Nat
      BY HowManyType DEF IInv, Types
    <2>3. HowMany(g_timeline, KindIs(Kind(tp))) + HowMany(timeline_rb, KindIs(Kind(tp)))
            + One(InHand(tp)) <= tp_counters[tp]
      BY DEF CountedFirst, Listed
    <2>4. tp_counters[tp] \in Nat /\ One(InHand(tp)) \in Nat
      BY DEF Owners, One
    <2>5. HowMany(g_timeline, KindIs(Kind(tp))) <= tp_counters[tp]
      BY <2>2, <2>3, <2>4
    <2> QED
      BY <2>1, <2>5
  <1>2. CASE UNCHANGED vars
    BY <1>2 DEF vars, ReportCovers
  <1>3. CASE Next /\ ~GenerateReports
    <2>1. CASE Driver
      BY <2>1 DEF Driver, PushRx, Queued, InjectFault, WriteTx, ForceRecovery, TimerExpires,
           TimerSchedules, WorkStarts, Push, At, userVars
    <2>2. CASE \E c \in Contexts : Program(c)
      BY <2>2 DEF Program, Enter, RaiseFlag, ClearFlag, Reserve, Submit, At, userVars
    <2>3. CASE Consume \/ Stop
      BY <2>3 DEF Consume, Stop
    <2> QED
      BY <1>3, <2>1, <2>2, <2>3 DEF Next
  <1> QED
    BY <1>1, <1>2, <1>3

\* Nothing is listed, in hand or reported when the tracer attaches.
LEMMA CountInit == Init => CountInv
PROOF
  <1> SUFFICES ASSUME Init PROVE CountInv
    OBVIOUS
  <1>1. IInv
    BY TimelineInit
  <1>2. Owners
    BY DEF Init, Owners, Counted, Contexts
  <1>3. ASSUME NEW E PROVE Listed(E) = 0
    <2>1. Where(<<>>, E) = {}
      BY EmptySeq DEF Where
    <2>2. HowMany(<<>>, E) = 0
      BY <2>1, FS_EmptySet DEF HowMany
    <2> QED
      BY <2>2 DEF Listed, Init
  <1>4. CountedFirst
    <2> SUFFICES ASSUME NEW tp \in Counted
                 PROVE  Listed(KindIs(Kind(tp))) + One(InHand(tp)) <= tp_counters[tp]
      BY DEF CountedFirst
    <2>1. ~InHand(tp)
      BY DEF InHand, OwnerOf, Init, Contexts
    <2> QED
      BY <1>3, <2>1 DEF One, Init
  <1>6. ReportCovers
    BY DEF ReportCovers, Init
  <1> QED
    BY <1>1, <1>2, <1>4, <1>6 DEF CountInv

\* Every step keeps the account of what was counted and what is listed.
LEMMA CountStep == CountInv /\ [Next]_vars => CountInv'
PROOF
  <1> SUFFICES ASSUME CountInv, [Next]_vars PROVE CountInv'
    OBVIOUS
  <1>1. IInv /\ Owners /\ CountedFirst /\ ReportCovers
    BY DEF CountInv
  <1>2. IInv'
    BY <1>1, TimelineStep
  <1>3. Owners' /\ CountedFirst'
    BY <1>1, OwnersStep, CountedStep
  <1>4. ReportCovers'
    BY <1>1, ReportStep
  <1> QED
    BY <1>2, <1>3, <1>4 DEF CountInv

\* The tracepoint counts of the report are never below the number of events in
\* it, whatever the ring lost, whenever the tracer stops and wherever the
\* programs are then: they count before they reserve, and generate_reports
\* reads the counters last.
THEOREM ReportCounts == Spec => []CountsCoverTimeline
PROOF
  <1>1. Init => CountInv
    BY CountInit
  <1>2. CountInv /\ [Next]_vars => CountInv'
    BY CountStep
  <1>3. CountInv => CountsCoverTimeline
    <2> SUFFICES ASSUME CountInv, reporter = "reported", NEW tp \in Counted
                 PROVE  Count(g_timeline, LAMBDA e : e.kind = Kind(tp)) <= counts[tp]
      BY DEF CountsCoverTimeline
    <2>1. \A i \in 1 .. Len(g_timeline) : g_timeline[i] \in Rec
      BY ElementOfSeq DEF CountInv, IInv, Types
    <2>2. {i \in 1 .. Len(g_timeline) : g_timeline[i].kind = Kind(tp)}
            = Where(g_timeline, KindIs(Kind(tp)))
      BY <2>1 DEF Where, KindIs
    <2>3. HowMany(g_timeline, KindIs(Kind(tp))) <= counts[tp]
      BY DEF CountInv, ReportCovers
    <2> QED
      BY <2>2, <2>3 DEF Count, HowMany
  <1> QED
    BY <1>1, <1>2, <1>3, PTL DEF Spec

-----------------------------------------------------------------------------
(* Types and sizes. *)

\* The part of TypeOK that is not about the log.
ControlTypes ==
  /\ hb_timer \in BOOLEAN /\ work_pending \in BOOLEAN /\ recovery_pending \in BOOLEAN
  /\ timeouts \in 0..MaxTimeouts /\ scheduled \in 0..MaxTimeouts
  /\ answered \in 0..MaxTimeouts /\ pushed \in 0..MaxFrames
  /\ pc \in [Contexts -> {"idle", "push", "queued", "schedule",
                           "enter", "raise", "clear", "reserve", "submit"}]
  /\ prog \in [Contexts -> Tracepoint]
  /\ tp_counters \in [Counted -> Nat] /\ counts \in [Counted -> Nat]
  /\ reporter \in {"polling", "draining", "reported"}

\* The part of TypeOK that is.
LogTypes ==
  /\ timeline_rb \in Seq(Event(BOOLEAN)) /\ Len(timeline_rb) <= RingCapacity
  /\ g_timeline \in Seq(Event({FALSE})) /\ Len(g_timeline) <= MAX_TIMELINE

\* TypeOK is the two of them.
LEMMA TypeParts == TypeOK <=> ControlTypes /\ LogTypes
BY DEF TypeOK, ControlTypes, LogTypes

\* The control of the driver, the programs and the reporter keeps its types.
LEMMA ControlStep ==
  ASSUME ControlTypes, [Next]_vars
  PROVE  ControlTypes'
PROOF
  <1> USE TimelineAssumption
  <1>1. "linkd" \in Contexts /\ "timer" \in Contexts /\ "work" \in Contexts
        /\ "ctl" \in Contexts /\ Writers \subseteq Contexts
    BY DEF Contexts, Writers
  <1>2. ASSUME NEW c \in Contexts
        PROVE  After(c) \in {"push", "schedule", "queued", "idle"}
    BY DEF After
  <1> USE DEF At, Goto, Hit, driverVars, traceVars, userVars
  <1>3. CASE PushRx
    BY <1>1, <1>3 DEF ControlTypes, PushRx
  <1>4. CASE Queued
    BY <1>1, <1>4 DEF ControlTypes, Queued
  <1>5. ASSUME NEW c \in Writers, WriteTx(c)
        PROVE  ControlTypes'
    BY <1>1, <1>5 DEF ControlTypes, WriteTx, Tracepoint
  <1>16. CASE InjectFault
    BY <1>1, <1>16 DEF ControlTypes, InjectFault
  <1>6. CASE ForceRecovery
    BY <1>6 DEF ControlTypes, ForceRecovery
  <1>7. CASE TimerExpires
    <2>1. /\ hb_timer' = FALSE /\ timeouts' = timeouts + 1 /\ timeouts < MaxTimeouts
          /\ UNCHANGED <<work_pending, scheduled, answered, pushed, recovery_pending,
                         tp_counters, counts, reporter>>
      BY <1>7 DEF TimerExpires
    <2>2. timeouts' \in 0..MaxTimeouts
      BY <2>1 DEF ControlTypes
    <2>3. PICK p \in {"enter", "push"} :
            /\ pc' = [pc EXCEPT !["timer"] = p]
            /\ UNCHANGED prog \/ prog' = [prog EXCEPT !["timer"] = "timeout_detected"]
      BY <1>7 DEF TimerExpires
    <2>4. pc' \in [Contexts -> {"idle", "push", "queued", "schedule",
                                "enter", "raise", "clear", "reserve", "submit"}]
      BY <2>3 DEF ControlTypes
    <2>5. prog' \in [Contexts -> Tracepoint]
      BY <2>3 DEF ControlTypes, Tracepoint, Counted
    <2> QED
      BY <2>1, <2>2, <2>4, <2>5 DEF ControlTypes
  <1>8. CASE TimerSchedules
    BY <1>1, <1>8 DEF ControlTypes, TimerSchedules
  <1>9. CASE WorkStarts
    BY <1>1, <1>9 DEF ControlTypes, WorkStarts, Tracepoint, Counted
  <1>10. ASSUME NEW c \in Contexts, Push(c)
         PROVE  ControlTypes'
    BY <1>10 DEF ControlTypes, Push, Tracepoint
  <1>11. ASSUME NEW c \in Contexts, Enter(c)
         PROVE  ControlTypes'
    <2>1. UNCHANGED <<hb_timer, work_pending, timeouts, scheduled, answered, pushed,
                      prog, counts, reporter>>
      BY <1>11 DEF Enter
    <2>2. tp_counters' \in [Counted -> Nat] /\ recovery_pending' \in BOOLEAN
      BY <1>11 DEF Enter, ControlTypes
    <2>3. PICK p \in {"raise", "reserve", "clear", "push", "schedule", "queued", "idle"} :
            pc' = [pc EXCEPT ![c] = p]
      <3>1. Second(c) \in {"raise", "reserve", "clear", "push", "schedule", "queued", "idle"}
        BY <1>2 DEF Second, ControlTypes, Tracepoint, Counted
      <3> QED
        BY <1>11, <3>1 DEF Enter
    <2>4. pc' \in [Contexts -> {"idle", "push", "queued", "schedule",
                                "enter", "raise", "clear", "reserve", "submit"}]
      BY <2>3 DEF ControlTypes
    <2> QED
      BY <2>1, <2>2, <2>4 DEF ControlTypes
  <1>12. ASSUME NEW c \in Contexts, RaiseFlag(c) \/ ClearFlag(c)
         PROVE  ControlTypes'
    BY <1>12 DEF ControlTypes, RaiseFlag, ClearFlag
  <1>13. ASSUME NEW c \in Contexts, Reserve(c) \/ Submit(c)
         PROVE  ControlTypes'
    <2>1. UNCHANGED <<hb_timer, work_pending, timeouts, scheduled, answered, pushed,
                      prog, recovery_pending, tp_counters, counts, reporter>>
      BY <1>13 DEF Reserve, Submit
    <2>2. PICK p \in {"submit", "push", "schedule", "queued", "idle"} :
            pc' = [pc EXCEPT ![c] = p]
      BY <1>2, <1>13 DEF Reserve, Submit
    <2>3. pc' \in [Contexts -> {"idle", "push", "queued", "schedule",
                                "enter", "raise", "clear", "reserve", "submit"}]
      BY <2>2 DEF ControlTypes
    <2> QED
      BY <2>1, <2>3 DEF ControlTypes
  <1>14. CASE Consume \/ Stop \/ GenerateReports
    BY <1>14 DEF ControlTypes, Consume, Stop, GenerateReports
  <1>15. CASE UNCHANGED vars
    BY <1>15 DEF ControlTypes, vars
  <1> QED
    BY <1>3, <1>4, <1>5, <1>6, <1>7, <1>8, <1>9, <1>10, <1>11, <1>12, <1>13, <1>14, <1>15, <1>16
       DEF Next, Driver, Program

\* The ring never holds more than it has room for, the table neither, and what
\* the reporter keeps was submitted.
LEMMA LogStep ==
  ASSUME ControlTypes, LogTypes, [Next]_vars
  PROVE  LogTypes'
PROOF
  <1> DEFINE B == Event(BOOLEAN)
             F == Event({FALSE})
             r == timeline_rb
             g == g_timeline
  <1>1. /\ r \in Seq(B) /\ Len(r) <= RingCapacity
        /\ g \in Seq(F) /\ Len(g) <= MAX_TIMELINE
        /\ RingCapacity \in Nat /\ MAX_TIMELINE \in Nat /\ MaxTimeouts \in Nat
    BY TimelineAssumption DEF LogTypes
  <1>2. CASE UNCHANGED <<timeline_rb, g_timeline>>
    BY <1>2 DEF LogTypes
  <1>3. ASSUME NEW c \in Contexts, Reserve(c)
        PROVE  LogTypes'
    <2>1. Record(c) \in B
      <3>1. Kind(prog[c]) \in {Kind(tp) : tp \in Tracepoint} /\ prog[c] \in Tracepoint
        BY DEF ControlTypes
      <3>2. PICK n \in 0..MaxTimeouts :
              n = CASE prog[c] = "timeout_detected" -> timeouts
                    [] prog[c] = "recovery_queued"  -> answered
                    [] prog[c] = "frame_received"   -> 0
        BY <1>1, <3>1 DEF ControlTypes, Tracepoint, Counted
      <3>3. PICK k \in {Kind(tp) : tp \in Tracepoint} : k = Kind(prog[c])
        BY <3>1
      <3>4. Record(c) = [kind |-> k, by |-> c, busy |-> TRUE, of |-> n]
        BY <3>2, <3>3 DEF Record
      <3> QED
        BY <3>4 DEF Event
    <2>2. g_timeline' = g_timeline
      BY <1>3 DEF Reserve, userVars
    <2>3. CASE timeline_rb' = timeline_rb
      BY <1>2, <2>2, <2>3
    <2>4. CASE timeline_rb' = Append(timeline_rb, Record(c)) /\ Len(timeline_rb) < RingCapacity
      <3> HIDE DEF B
      <3>1. Append(r, Record(c)) \in Seq(B) /\ Len(Append(r, Record(c))) = Len(r) + 1
        BY <1>1, <2>1, AppendProperties
      <3>2. Len(r) \in Nat
        BY <1>1, LenProperties
      <3>3. Len(r) + 1 <= RingCapacity
        BY <1>1, <2>4, <3>2
      <3> QED
        BY <1>1, <2>2, <2>4, <3>1, <3>3 DEF LogTypes, B
    <2> QED
      BY <1>3, <2>3, <2>4 DEF Reserve
  <1>4. ASSUME NEW c \in Contexts, Submit(c)
        PROVE  LogTypes'
    <2> DEFINE u == [i \in DOMAIN r |-> IF r[i].by = c THEN [r[i] EXCEPT !.busy = FALSE]
                                                       ELSE r[i]]
    <2>1. g_timeline' = g_timeline /\ timeline_rb' = u
      BY <1>4 DEF Submit, userVars
    <2>2. \A e \in B : [e EXCEPT !.busy = FALSE] \in B
      BY DEF Event
    <2>3. DOMAIN r = 1 .. Len(r) /\ Len(r) \in Nat /\ \A i \in 1 .. Len(r) : r[i] \in B
      BY <1>1, LenProperties, ElementOfSeq
    <2>4. u \in [1 .. Len(r) -> B]
      BY <2>2, <2>3
    <2> HIDE DEF u, B
    <2>5. u \in Seq(B) /\ Len(u) = Len(r)
      BY <2>3, <2>4
    <2> QED
      BY <1>1, <2>1, <2>5 DEF LogTypes, B
  <1>5. CASE Consume
    <2>1. r # <<>> /\ ~Head(r).busy /\ timeline_rb' = Tail(r)
          /\ g_timeline' = IF Len(g) < MAX_TIMELINE THEN Append(g, Head(r)) ELSE g
      BY <1>5 DEF Consume, Readable
    <2>2. /\ Head(r) \in B /\ Tail(r) \in Seq(B) /\ Len(Tail(r)) = Len(r) - 1
          /\ Len(r) \in Nat
      BY <1>1, <2>1, HeadTailProperties, LenProperties
    <2>3. \A e \in B : ~e.busy => e \in F
      BY DEF Event
    <2>4. Head(r) \in F
      BY <2>1, <2>2, <2>3
    <2> HIDE DEF B, F
    <2>5. /\ Append(g, Head(r)) \in Seq(F) /\ Len(Append(g, Head(r))) = Len(g) + 1
          /\ Len(g) \in Nat
      BY <1>1, <2>4, AppendProperties, LenProperties
    <2>6. g_timeline' \in Seq(F) /\ Len(g_timeline') <= MAX_TIMELINE
      BY <1>1, <2>1, <2>5
    <2>7. Len(Tail(r)) <= RingCapacity
      BY <1>1, <2>2
    <2> QED
      BY <2>1, <2>2, <2>6, <2>7 DEF LogTypes, B, F
  <1>6. CASE Driver
    BY <1>2, <1>6 DEF Driver, PushRx, Queued, InjectFault, WriteTx, ForceRecovery, TimerExpires,
         TimerSchedules, WorkStarts, Push, traceVars, userVars
  <1>7. ASSUME NEW c \in Contexts, Enter(c) \/ RaiseFlag(c) \/ ClearFlag(c)
        PROVE  LogTypes'
    BY <1>2, <1>7 DEF Enter, RaiseFlag, ClearFlag, userVars
  <1>8. CASE Stop \/ GenerateReports \/ UNCHANGED vars
    BY <1>2, <1>8 DEF Stop, GenerateReports, vars, traceVars
  <1> QED
    BY <1>3, <1>4, <1>5, <1>6, <1>7, <1>8 DEF Next, Program

\* The types of the source, the sizes of the ring and of the reporter's table,
\* and that the reporter keeps submitted records only.
THEOREM TimelineTypeCorrect == Spec => []TypeOK
PROOF
  <1>1. Init => TypeOK
    <2> SUFFICES ASSUME Init PROVE TypeOK
      OBVIOUS
    <2>1. ControlTypes
      <3>1. /\ hb_timer \in BOOLEAN /\ work_pending \in BOOLEAN
            /\ recovery_pending \in BOOLEAN
        BY DEF Init
      <3>2. /\ timeouts \in 0..MaxTimeouts /\ scheduled \in 0..MaxTimeouts
            /\ answered \in 0..MaxTimeouts /\ pushed \in 0..MaxFrames
        BY TimelineAssumption DEF Init
      <3>3. /\ pc \in [Contexts -> {"idle", "push", "queued", "schedule",
                                    "enter", "raise", "clear", "reserve", "submit"}]
            /\ prog \in [Contexts -> Tracepoint]
        BY DEF Init, Tracepoint
      <3>4. /\ tp_counters \in [Counted -> Nat] /\ counts \in [Counted -> Nat]
            /\ reporter \in {"polling", "draining", "reported"}
        BY DEF Init
      <3> QED
        BY <3>1, <3>2, <3>3, <3>4 DEF ControlTypes
    <2>2. LogTypes
      BY TimelineAssumption, EmptySeq DEF Init, LogTypes
    <2> QED
      BY <2>1, <2>2, TypeParts
  <1>2. TypeOK /\ [Next]_vars => TypeOK'
    <2> SUFFICES ASSUME TypeOK, [Next]_vars PROVE TypeOK'
      OBVIOUS
    <2>1. ControlTypes /\ LogTypes
      BY TypeParts
    <2>2. ControlTypes' /\ LogTypes'
      BY <2>1, ControlStep, LogStep
    <2> QED
      BY <2>2 DEF TypeOK, ControlTypes, LogTypes
  <1> QED
    BY <1>1, <1>2, PTL DEF Spec
=============================================================================
