---------------------------- MODULE LossyChannel ----------------------------
(***************************************************************************)
(* What one direction of the serial link promises.  Each frame is put in   *)
(* once, at the near end or on the way.  It may be refused, lost or        *)
(* damaged, at any place; what comes out comes out in the order in which   *)
(* it was on the way, each frame once, and nothing else does.              *)
(***************************************************************************)
EXTENDS Naturals, Sequences

CONSTANTS Near, Far \* frames put in at the near end, and on the way: records
                    \* with the fields origin and n, which frame it is, and ok
VARIABLES sent,     \* the frames that have been put in, by origin and n
          inflight, \* the frames on their way, the oldest first
          got       \* the frame that came out last, or None

cvars == <<sent, inflight, got>>
None == [ok |-> FALSE]

Init == sent = {} /\ inflight = <<>> /\ got = None

\* A sequence without its k-th element, and with x put in before it.
Without(c, k) == SubSeq(c, 1, k - 1) \o SubSeq(c, k + 1, Len(c))
With(c, k, x) == SubSeq(c, 1, k - 1) \o <<x>> \o SubSeq(c, k, Len(c))

Once(f) ==
  /\ f.ok /\ <<f.origin, f.n>> \notin sent
  /\ sent' = sent \cup {<<f.origin, f.n>>}
  /\ UNCHANGED got
Send(f) ==
  /\ Once(f)
  /\ inflight' \in {inflight, Append(inflight, f)}
Join(f) ==
  /\ Once(f)
  /\ \/ UNCHANGED inflight
     \/ \E i \in 1..(Len(inflight) + 1) : inflight' = With(inflight, i, f)
Damage(i) ==
  /\ inflight' = [inflight EXCEPT ![i].ok = FALSE]
  /\ UNCHANGED <<sent, got>>
Lose(i) ==
  /\ inflight' = Without(inflight, i)
  /\ UNCHANGED <<sent, got>>
Take ==
  /\ inflight # <<>>
  /\ inflight' = Tail(inflight)
  /\ got' = Head(inflight)
  /\ UNCHANGED sent

Next == \/ Take
        \/ \E i \in DOMAIN inflight : Damage(i) \/ Lose(i)
        \/ \E f \in Near : Send(f)
        \/ \E f \in Far : Join(f)

Spec == Init /\ [][Next]_cvars
=============================================================================
