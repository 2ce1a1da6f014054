------------------------- MODULE ExpiryTimersProofs -------------------------
(* Theorems about ExpiryTimers, for every value of its constants.           *)
EXTENDS ExpiryTimers, StreamIsLogProofs

(* What the runtime does about time changes the stream as DurableStream     *)
(* says, or not at all.                                                     *)
LEMMA TimersStep ==
    ASSUME TypeOK, [NextTimers]_timervars
    PROVE  [Next]_vars
<1>1. ASSUME NEW r \in PutRequests, NEW now \in Sampled, put(r, now)
      PROVE  Next
  BY <1>1 DEF put, Next
<1>2. ASSUME NEW r \in PostRequests, NEW now \in Sampled, post(r, now)
      PROVE  Next
  BY <1>2 DEF post, Next
<1>3. ASSUME NEW p \in Optional(ProducerHeaders), NEW now \in Sampled, close(p, now)
      PROVE  Next
  BY <1>3 DEF close, Next
<1>4. ASSUME NEW now \in Sampled, head(now)
      PROVE  Next
  BY <1>4 DEF head, Next
<1>5. ASSUME NEW now \in touches, touched(now)
      PROVE  Next
  BY <1>5 DEF touched, Next
<1>6. CASE get \/ delete
  BY <1>6 DEF get, delete, Next
<1>7. ASSUME NEW e \in Edges, acquire(e) \/ release(e)
      PROVE  Next
  <2>1. None \in Optional(ForkOffsets) /\ None \in Optional(ContentTypes)
    BY DEF Optional
  <2> QED
    BY <1>7, <2>1 DEF acquire, release, Next
<1>8. CASE Upkeep
  <2>1. \A run \in Runs, now \in Sampled : run_maintenance(run, now) => Next
    BY DEF run_maintenance, Next
  <2>2. created => UNCHANGED vars
    BY DEF created
  <2>3. \A run \in Runs : rearm(run) \/ (\E t \in schedule : fire(run, t)) => UNCHANGED vars
    BY DEF rearm, fire
  <2> QED
    BY <1>8, <2>1, <2>2, <2>3 DEF Upkeep
<1>9. CASE fails
  BY <1>9 DEF fails
<1>10. CASE restart
  <2>1. boot' = clock /\ touches' = {} /\ UNCHANGED <<db, clock, gens, held>>
    BY <1>10 DEF restart
  <2>2. CASE boot < clock \/ touches # {}
    BY <2>1, <2>2 DEF Restart, Next
  <2>3. CASE ~(boot < clock \/ touches # {})
    <3>1. boot \in Nat /\ clock \in Nat /\ boot <= clock
      BY DEF TypeOK
    <3>2. boot = clock /\ touches = {}
      BY <2>3, <3>1
    <3> QED
      BY <2>1, <3>2 DEF vars
  <2> QED
    BY <2>2, <2>3
<1>11. CASE tick
  BY <1>11 DEF tick, Next
<1>12. CASE UNCHANGED timervars
  BY <1>12 DEF timervars, vars
<1> QED
  BY <1>1, <1>2, <1>3, <1>4, <1>5, <1>6, <1>7, <1>8, <1>9, <1>10, <1>11, <1>12 DEF NextTimers

(* With its timers an actor is still the actor of DurableStream, so that    *)
(* every theorem about DurableStream holds of it.                           *)
THEOREM TimersAreADurableStream == SpecTimers => Spec
<1>1. InitTimers => Init
  BY DEF InitTimers
<1>2. InitTimers => TypeOK
  BY <1>1, TypeInit
<1>3. TypeOK /\ [NextTimers]_timervars => TypeOK'
  BY TimersStep, TypeStep
<1>4. SpecTimers => []TypeOK
  BY <1>2, <1>3, PTL DEF SpecTimers
<1>5. TypeOK /\ [NextTimers]_timervars => [Next]_vars
  BY TimersStep
<1> QED
  BY <1>1, <1>4, <1>5, PTL DEF SpecTimers, Spec

(* A stream whose timers fire, are lost with the actor and are armed again  *)
(* is still the log IdempotentLog promises: maintenance never takes an      *)
(* entry out of a log that is not removed as a whole (run_maintenance).     *)
THEOREM TimersKeepTheLog == SpecTimers => ImplementsLog
BY TimersAreADurableStream, StreamImplementsLog, PTL

-----------------------------------------------------------------------------
(* Timers *)

(* Run r will look at the stream, or schedule somebody who does, by x.      *)
Looks(r, x) ==
    /\ maintenance[r] # None
    /\ maintenance[r].pc = "arm" => maintenance[r].at <= x

(* A run about to schedule its next knows when. *)
RunsOK ==
    /\ DOMAIN maintenance = Runs
    /\ \A r \in Runs :
          maintenance[r] # None /\ maintenance[r].pc = "arm" => maintenance[r].at \in Nat

InTime(x) == \/ \E r \in Runs : Looks(r, x)
             \/ \E t \in schedule \intersect Nat : t <= x

(* A run in progress is no free one. *)
LEMMA LookIsARun == \A x \in Int : Look(x) # None /\ Arm(x) # None
BY NoneIsNoRun DEF Look, Arm

OneLooks(m, run, start) ==
    /\ DOMAIN m = Runs /\ m[run] = Look(start) /\ m[run] # None
    /\ \A r \in Runs \ {run} : m[r] = None

(* A start has a run that looks at the stream. *)
LEMMA RunStarts ==
    ASSUME NEW run \in Runs, NEW m, NEW start \in Nat, m = [NoRuns EXCEPT ![run] = Look(start)]
    PROVE  OneLooks(m, run, start)
BY LookIsARun DEF NoRuns, OneLooks

(* The inductive invariant: the one who will look has a time for it.        *)
LookInv ==
    /\ RunsOK
    /\ Live(db) /\ expires(db.meta) => creating \/ missed \/ InTime(latest(db.meta))

LatestAt(m, c) == IF m.expires_at # None THEN m.expires_at ELSE c + m.ttl_seconds

(* The expiry of a row is a time, and no later than the latest it can be.   *)
LEMMA ExpiryTime ==
    ASSUME NEW m \in Meta, NEW c \in Nat, m.last_accessed_at <= c, expires(m)
    PROVE  /\ expiry_time(m) \in Nat /\ LatestAt(m, c) \in Nat
           /\ expiry_time(m) <= LatestAt(m, c)
<1>1. /\ m.last_accessed_at \in Nat
      /\ m.ttl_seconds \in Nat \union {None} /\ m.expires_at \in Nat \union {None}
  BY NumbersAreNaturals DEF Meta, Optional
<1> QED
  BY <1>1, NoneIsNoNumber DEF expires, expiry_time, LatestAt

(* That of the row there is before and after a step. *)
LEMMA ExpiryOfRow ==
    ASSUME LifecycleInv, LifecycleInv'
    PROVE  /\ db.meta # None /\ expires(db.meta) =>
                 /\ expiry_time(db.meta) \in Nat /\ latest(db.meta) \in Nat
                 /\ expiry_time(db.meta) <= latest(db.meta)
           /\ db'.meta # None /\ expires(db'.meta) =>
                 /\ expiry_time(db'.meta) \in Nat /\ latest(db.meta)' \in Nat
                 /\ expiry_time(db'.meta) <= latest(db.meta)'
<1>1. /\ latest(db.meta) = LatestAt(db.meta, clock)
      /\ latest(db.meta)' = LatestAt(db'.meta, clock')
  BY DEF latest, LatestAt
<1>2. db.meta # None =>
         db.meta \in Meta /\ clock \in Nat /\ db.meta.last_accessed_at <= clock
  BY DEF LifecycleInv, TypeOK, Database, Optional
<1>3. db'.meta # None =>
         db'.meta \in Meta /\ clock' \in Nat /\ db'.meta.last_accessed_at <= clock'
  BY DEF LifecycleInv, TypeOK, Database, Optional
<1> QED
  BY <1>1, <1>2, <1>3, ExpiryTime

(* What a step does to the expiry of a stream that is live after it.        *)
LEMMA ExpiryKept ==
    ASSUME LifecycleInv, [Next]_vars, Live(db')
    PROVE  gens' = gens + 1 \/ (Live(db) /\ SameExpiry(db, db'))
<1>1. /\ db \in Database /\ \A now \in Sampled : now \in Nat
      /\ purge.meta = None
  BY PurgeSound DEF LifecycleInv, TypeOK, Sampled
<1>2. CASE LogUntouched(db, db')
  BY <1>1, <1>2 DEF LogUntouched, Quiet, Live, SameExpiry
<1>3. CASE Creates
  BY <1>3 DEF Creates
<1>4. CASE Appends
  <2>1. PICK r \in PostRequests, now \in Sampled :
           post_reply(db, r, now) = "accepted" /\ db' \in posted(db, r, now)
    BY <1>4 DEF Appends
  <2>2. db.meta # None /\ ~db.meta.soft_deleted
    BY <2>1 DEF post_reply
  <2>3. PostEffect(db, r, now, db')
    BY <1>1, <2>1, <2>2, Posted
  <2> QED
    BY <2>2, <2>3 DEF PostEffect, Live
<1>5. CASE Closes
  <2>1. PICK p \in Optional(ProducerHeaders), now \in Sampled :
           close_reply(db, p, now) = "accepted" /\ db' \in close_only(db, p, now)
    BY <1>5 DEF Closes
  <2>2. db.meta # None /\ ~db.meta.soft_deleted
    BY <2>1 DEF close_reply
  <2>3. CloseEffect(db, p, db')
    BY <1>1, <2>1, <2>2, Closed
  <2> QED
    BY <2>2, <2>3 DEF CloseEffect, Live
<1> QED
  BY <1>2, <1>3, <1>4, <1>5, StepCases

(* A step that hands out no generation leaves a live stream its expiry, so  *)
(* that whatever was in time before is in time after it.                    *)
LEMMA StillInTime ==
    ASSUME LifecycleInv, LifecycleInv', [Next]_vars, gens' # gens + 1,
           Live(db'), expires(db'.meta)
    PROVE  /\ Live(db) /\ expires(db.meta)
           /\ latest(db.meta) \in Nat /\ latest(db.meta)' \in Nat
           /\ latest(db.meta) <= latest(db.meta)'
<1>1. Live(db) /\ SameExpiry(db, db')
  BY ExpiryKept
<1>2. expires(db.meta)
  BY <1>1 DEF SameExpiry, expires
<1>3. latest(db.meta) \in Nat /\ latest(db.meta)' \in Nat
  BY <1>1, <1>2, ExpiryOfRow DEF Live
<1>4. clock \in Nat /\ clock' \in Nat /\ clock <= clock'
  BY ClockAdvances DEF LifecycleInv, TypeOK
<1>5. db.meta.ttl_seconds \in Nat \union {None} /\ db.meta.expires_at \in Nat \union {None}
  BY <1>1, NumbersAreNaturals DEF LifecycleInv, TypeOK, Live, Database, Optional, Meta
<1>6. latest(db.meta) <= latest(db.meta)'
  BY <1>1, <1>2, <1>4, <1>5, NoneIsNoNumber DEF latest, SameExpiry, expires
<1> QED
  BY <1>1, <1>2, <1>3, <1>6

(* Where the requests keep the runs and the timers there are, the stream is *)
(* as well provided for after the step as before it.                        *)
LEMMA LookKept ==
    ASSUME LifecycleInv, LifecycleInv', LookInv, [Next]_vars, gens' # gens + 1,
           schedule \subseteq schedule', UNCHANGED <<maintenance, missed>>,
           creating => creating'
    PROVE  LookInv'
<1>1. RunsOK'
  BY DEF LookInv, RunsOK
<1> SUFFICES ASSUME Live(db'), expires(db'.meta), ~missed, ~creating
             PROVE  InTime(latest(db.meta))'
  BY <1>1 DEF LookInv
<1>2. /\ Live(db) /\ expires(db.meta)
      /\ latest(db.meta) \in Nat /\ latest(db.meta)' \in Nat
      /\ latest(db.meta) <= latest(db.meta)'
  BY StillInTime
<1>3. InTime(latest(db.meta))
  BY <1>2 DEF LookInv
<1>4. ASSUME NEW r \in Runs, Looks(r, latest(db.meta))
      PROVE  Looks(r, latest(db.meta))'
  <2>1. maintenance[r].pc = "arm" => maintenance[r].at \in Nat
    BY <1>4 DEF LookInv, RunsOK, Looks
  <2> QED
    BY <1>2, <1>4, <2>1 DEF Looks
<1>5. ASSUME NEW t \in schedule \intersect Nat, t <= latest(db.meta)
      PROVE  t \in schedule' \intersect Nat /\ t <= latest(db.meta)'
  BY <1>2, <1>5
<1> QED
  BY <1>3, <1>4, <1>5 DEF InTime

(* Each step of the actor or of the runtime keeps somebody in time.         *)
LEMMA LookStep ==
    ASSUME LifecycleInv, LifecycleInv', LookInv, [NextTimers]_timervars
    PROVE  LookInv'
<1>1. TypeOK /\ [Next]_vars /\ clock \in Nat /\ gens \in Nat
  BY TimersStep DEF LifecycleInv, TypeOK
<1>2. ASSUME schedule \subseteq schedule',
             UNCHANGED <<gens, maintenance, missed>>, creating => creating'
      PROVE  LookInv'
  <2>1. gens' # gens + 1
    BY <1>1, <1>2
  <2> QED
    BY <1>1, <1>2, <2>1, LookKept
<1>3. \A condition : retry_if(condition) => schedule \subseteq schedule'
  BY DEF retry_if
<1>4. RunsOK
  BY DEF LookInv
<1>5. ASSUME NEW now, looks(now), UNCHANGED <<gens, creating>>
      PROVE  LookInv'
  BY <1>2, <1>3, <1>5 DEF looks, runs
<1>6. ASSUME NEW r \in PutRequests, NEW now \in Sampled, put(r, now)
      PROVE  LookInv'
  <2>1. CASE gens' = gens
    <3>1. creating' = (gens' > gens) /\ ~creating
      BY <1>6 DEF put, looks, asked
    <3> QED
      BY <1>2, <1>3, <1>6, <2>1, <3>1 DEF put, looks, runs
  <2>2. CASE gens' # gens
    <3>1. gens' = gens + 1
      BY <1>6, <2>2 DEF put, handle_put
    <3>2. creating'
      <4>1. creating' = (gens' > gens)
        BY <1>6 DEF put
      <4>2. (gens' > gens) = TRUE
        BY <1>1, <3>1
      <4> QED
        BY <4>1, <4>2, Zenon
    <3>3. RunsOK'
      BY <1>4, <1>6 DEF put, looks, runs, RunsOK
    <3> QED
      BY <3>2, <3>3 DEF LookInv
  <2> QED
    BY <2>1, <2>2
<1>7. ASSUME NEW r \in PostRequests, NEW now \in Sampled, post(r, now)
      PROVE  LookInv'
  BY <1>5, <1>7 DEF post, handle_post
<1>8. ASSUME NEW p \in Optional(ProducerHeaders), NEW now \in Sampled, close(p, now)
      PROVE  LookInv'
  BY <1>5, <1>8 DEF close, handle_close_only
<1>9. ASSUME NEW now \in Sampled, head(now)
      PROVE  LookInv'
  BY <1>5, <1>9 DEF head, visible_meta
<1>10. CASE get
  BY <1>2, <1>10 DEF get, read_snapshot, timers, runs
<1>11. ASSUME NEW now \in touches, touched(now)
       PROVE  LookInv'
  BY <1>2, <1>11 DEF touched, touch_access, timers, runs
<1>12. CASE delete
  BY <1>2, <1>3, <1>12 DEF delete, handle_delete, runs
<1>13. ASSUME NEW e \in Edges, acquire(e)
       PROVE  LookInv'
  BY <1>2, <1>3, <1>13 DEF acquire, fork_acquire, runs
<1>14. ASSUME NEW e \in Edges, release(e)
       PROVE  LookInv'
  BY <1>2, <1>3, <1>14 DEF release, fork_release, runs
<1>15. CASE created
  <2>1. UNCHANGED <<db, clock, maintenance>> /\ schedule_expiry(db.meta)
    BY <1>15 DEF created, vars
  <2>2. RunsOK'
    BY <1>4, <2>1 DEF RunsOK
  <2> SUFFICES ASSUME (Live(db) /\ expires(db.meta))'
               PROVE  \E t \in schedule' \intersect Nat : t <= latest(db.meta)'
    BY <2>2 DEF LookInv, InTime
  <2>3. /\ expiry_time(db'.meta) \in Nat
        /\ expiry_time(db'.meta) <= latest(db.meta)'
    BY ExpiryOfRow DEF Live
  <2>4. expiry_time(db'.meta) \in schedule'
    BY <2>1 DEF schedule_expiry, expires, expiry_time
  <2> QED
    BY <2>3, <2>4
<1>16. ASSUME NEW run \in Runs, NEW t \in schedule, fire(run, t)
       PROVE  LookInv'
  <2>1. maintenance' = [maintenance EXCEPT ![run] = Look(clock)]
    BY <1>16 DEF fire
  <2>2. maintenance'[run] = Look(clock) /\ maintenance'[run] # None
    BY <1>1, <1>4, <2>1, LookIsARun DEF RunsOK
  <2>3. RunsOK'
    BY <1>4, <2>1, <2>2 DEF RunsOK, Look
  <2>4. Looks(run, latest(db.meta))'
    BY <2>2 DEF Looks, Look
  <2> QED
    BY <2>3, <2>4 DEF LookInv, InTime
<1>17. ASSUME NEW run \in Runs, NEW now \in Sampled, run_maintenance(run, now)
       PROVE  LookInv'
  <2>1. CASE rearms(db')
    <3>1. maintenance' = [maintenance EXCEPT ![run] = Arm(expiry_time(db'.meta))]
      BY <1>17, <2>1 DEF run_maintenance
    <3>2. /\ expiry_time(db'.meta) \in Nat
          /\ expiry_time(db'.meta) <= latest(db.meta)'
      BY <2>1, ExpiryOfRow DEF rearms, Live
    <3>3. maintenance'[run] = Arm(expiry_time(db'.meta)) /\ maintenance'[run] # None
      BY <1>4, <3>1, <3>2, LookIsARun DEF RunsOK
    <3>4. RunsOK'
      BY <1>4, <3>1, <3>2, <3>3 DEF RunsOK, Arm
    <3>5. Looks(run, latest(db.meta))'
      BY <3>2, <3>3 DEF Looks, Arm
    <3> QED
      BY <3>4, <3>5 DEF LookInv, InTime
  <2>2. CASE ~rearms(db')
    <3>1. maintenance' = [maintenance EXCEPT ![run] = None]
      BY <1>17, <2>2 DEF run_maintenance
    <3>2. RunsOK'
      BY <1>4, <3>1 DEF RunsOK
    <3> QED
      BY <2>2, <3>2 DEF LookInv, rearms
  <2> QED
    BY <2>1, <2>2
<1>18. ASSUME NEW run \in Runs, rearm(run)
       PROVE  LookInv'
  <2>1. /\ UNCHANGED <<db, clock, creating, missed>>
        /\ maintenance[run] # None /\ maintenance[run].pc = "arm"
        /\ schedule' = schedule \union {maintenance[run].at}
        /\ maintenance' = [maintenance EXCEPT ![run] = None]
    BY <1>18 DEF rearm, vars
  <2>2. RunsOK'
    BY <1>4, <2>1 DEF RunsOK
  <2> SUFFICES ASSUME Live(db), expires(db.meta), ~creating, ~missed
               PROVE  InTime(latest(db.meta))'
    BY <2>1, <2>2 DEF LookInv
  <2>3. latest(db.meta)' = latest(db.meta) /\ maintenance[run].at \in Nat
    BY <1>4, <2>1 DEF latest, RunsOK
  <2>4. InTime(latest(db.meta))
    BY DEF LookInv
  <2>5. ASSUME NEW other \in Runs, other # run, Looks(other, latest(db.meta))
        PROVE  Looks(other, latest(db.meta))'
    <3>1. maintenance'[other] = maintenance[other]
      BY <1>4, <2>1, <2>5 DEF RunsOK
    <3> QED
      BY <2>3, <2>5, <3>1 DEF Looks
  <2>6. ASSUME Looks(run, latest(db.meta))
        PROVE  \E t \in schedule' \intersect Nat : t <= latest(db.meta)'
    BY <2>1, <2>3, <2>6 DEF Looks
  <2>7. ASSUME NEW t \in schedule \intersect Nat, t <= latest(db.meta)
        PROVE  t \in schedule' \intersect Nat /\ t <= latest(db.meta)'
    BY <2>1, <2>3, <2>7
  <2> QED
    BY <2>4, <2>5, <2>6, <2>7 DEF InTime
<1>19. CASE fails
  <2>1. missed' /\ (maintenance' = maintenance \/ \E r \in Runs :
                       maintenance' = [maintenance EXCEPT ![r] = None])
    BY <1>19 DEF fails
  <2>2. RunsOK'
    BY <1>4, <2>1 DEF RunsOK
  <2> QED
    BY <2>1, <2>2 DEF LookInv
<1>20. CASE restart
  <2>1. PICK run \in Runs : maintenance' = [NoRuns EXCEPT ![run] = Look(clock)]
    BY <1>20 DEF restart, on_start
  <2>2. OneLooks(maintenance', run, clock)
    BY <1>1, <2>1, RunStarts
  <2>3. RunsOK' /\ Looks(run, latest(db.meta))'
    BY <2>2 DEF OneLooks, RunsOK, Looks, Look
  <2> QED
    BY <2>3 DEF LookInv, InTime
<1>21. CASE tick \/ UNCHANGED timervars
  <2>1. UNCHANGED <<gens, schedule, creating, maintenance, missed>>
    BY <1>21 DEF tick, Tick, timervars, timers, vars, runs
  <2> QED
    BY <1>2, <2>1
<1> QED
  BY <1>6, <1>7, <1>8, <1>9, <1>10, <1>11, <1>12, <1>13, <1>14, <1>15, <1>16, <1>17,
     <1>18, <1>19, <1>20, <1>21 DEF NextTimers, Upkeep

(* A stream with an expiry always has somebody who will look at it in time: *)
(* for any TTLs, renewals, forks and restarts.                              *)
THEOREM StreamsAreLookedAt == SpecTimers => []LookedAtInTime
<1>1. SpecTimers => []LifecycleInv
  BY TimersAreADurableStream, LifecycleInvariant, PTL
<1>2. InitTimers => LookInv
  <2> SUFFICES ASSUME InitTimers PROVE LookInv
    OBVIOUS
  <2>1. PICK run \in Runs : maintenance = [NoRuns EXCEPT ![run] = Look(clock)]
    BY DEF InitTimers
  <2>2. OneLooks(maintenance, run, clock)
    BY <2>1, RunStarts DEF InitTimers, Init
  <2> QED
    BY <2>2 DEF OneLooks, RunsOK, LookInv, InTime, Looks, Look
<1>3. LifecycleInv /\ LifecycleInv' /\ LookInv /\ [NextTimers]_timervars => LookInv'
  BY LookStep
<1>4. LookInv => LookedAtInTime
  BY DEF LookInv, LookedAtInTime, InTime, Looks
<1> QED
  BY <1>1, <1>2, <1>3, <1>4, PTL DEF SpecTimers
=============================================================================
