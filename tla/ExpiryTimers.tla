---------------------------- MODULE ExpiryTimers ----------------------------
(***************************************************************************)
(* How a stream nobody asks for goes away.  An expired stream is retired   *)
(* by the next request that looks at it; for an idle one the actor has a   *)
(* Maintenance scheduled at the expiry it knew when it last looked.  A     *)
(* request that renews a sliding TTL schedules nothing: the maintenance    *)
(* fires at the old expiry, finds the stream alive and schedules the next. *)
(* Scheduled actions outlive the actor (they are the runtime's), the       *)
(* tasks of an actor do not; a crashed actor is started again and          *)
(* maintains itself.  Maintenance runs take no lock but while they look at *)
(* the stream, so that they overlap; one that fails schedules nothing.     *)
(* The handlers are those of DurableStream; this module adds what they     *)
(* schedule, and when.  Fork intents and releases are ForkProtocol's.      *)
(***************************************************************************)
EXTENDS DurableStream

CONSTANTS
    MAINTENANCE_RETRY_MS,   \* in ticks
    LastRequest,            \* the time after which the stream is left alone
    Runs,                   \* the maintenance runs there may be at a time
    MaxRestarts, MaxFailures    \* bounds of the exploration

ASSUME TimesAreNaturals ==
    /\ MAINTENANCE_RETRY_MS \in Nat \ {0}
    /\ LastRequest \in Nat /\ MaxRestarts \in Nat /\ MaxFailures \in Nat

VARIABLES
    schedule,   \* times at which the runtime will run a Maintenance
    creating,   \* a PUT has committed its stream and still holds the mutex
    maintenance,\* each maintenance run: about to look at the stream, or to arm
    missed,     \* ghost: a schedule may be missing, for want of success
    restarts, failures      \* so far

runs == <<maintenance, missed, restarts, failures>>
timers == <<schedule, creating, runs>>
timervars == <<vars, timers>>

expires(meta) == meta.ttl_seconds # None \/ meta.expires_at # None

(* The absolute expiry, the sliding one, or the earlier of the two.         *)
expiry_time(meta) ==
    LET sliding == meta.last_accessed_at + meta.ttl_seconds
    IN IF meta.ttl_seconds = None THEN meta.expires_at
       ELSE IF meta.expires_at = None \/ sliding <= meta.expires_at THEN sliding
       ELSE meta.expires_at

(* A run knows when it started, and then the expiry of the row it has seen. *)
Look(start) == [pc |-> "look", at |-> start]
Arm(expiry) == [pc |-> "arm", at |-> expiry]

ASSUME NoneIsNoRun == None \notin [pc : {"look", "arm"}, at : Int]

NoRuns == [r \in Runs |-> None]

InitTimers ==
    /\ Init
    /\ schedule = {} /\ creating = FALSE
    /\ \E r \in Runs : maintenance = [NoRuns EXCEPT ![r] = Look(clock)]
    /\ missed = FALSE /\ restarts = 0 /\ failures = 0

-----------------------------------------------------------------------------
(* The mutex is free, and somebody still has use for the stream.            *)
asked == ~creating /\ clock <= LastRequest

(* visible_meta_while_locked schedules a maintenance before it retires an   *)
(* expired stream, and so does a DELETE; the other cases schedule nothing.  *)
retry_if(condition) ==
    schedule' = IF condition THEN schedule \union {clock + MAINTENANCE_RETRY_MS}
                ELSE schedule

lapsed(now) == db.meta # None /\ is_expired(db.meta, now)

(* What a PUT, a POST, a close, a HEAD or a GET adds to its handler.        *)
looks(now) ==
    /\ asked /\ retry_if(lapsed(now))
    /\ UNCHANGED runs

put(r, now) ==
    /\ looks(now) /\ handle_put(r, now)
    /\ creating' = (gens' > gens)

post(r, now) == looks(now) /\ handle_post(r, now) /\ UNCHANGED creating

close(producer, now) ==
    looks(now) /\ handle_close_only(producer, now) /\ UNCHANGED creating

head(now) == looks(now) /\ visible_meta(now) /\ UNCHANGED creating

get ==
    /\ asked /\ read_snapshot
    /\ UNCHANGED timers

(* The touch of a read that was under way when the requests ended. *)
touched(now) ==
    /\ ~creating /\ touch_access(now)
    /\ UNCHANGED timers

delete ==
    /\ asked /\ handle_delete
    /\ retry_if(lapsed(clock) \/ Live(db))
    /\ UNCHANGED <<creating, runs>>

acquire(e) ==
    /\ asked /\ fork_acquire(e, None, None)
    /\ retry_if(lapsed(clock) /\ db.fork_edges[e] = None)
    /\ UNCHANGED <<creating, runs>>

release(e) ==
    /\ ~creating /\ held[e] # None /\ ~held[e].returned
    /\ fork_release(e)
    /\ retry_if(/\ db.meta # None /\ db.meta.generation = held[e].generation
                /\ db.meta.soft_deleted)
    /\ UNCHANGED <<creating, runs>>

-----------------------------------------------------------------------------
(* Mutant: only a sliding TTL is scheduled for. *)
schedule_sliding(meta) ==
    schedule' = IF meta.ttl_seconds # None THEN schedule \union {expiry_time(meta)}
                ELSE schedule

schedule_expiry(meta) ==
    schedule' = IF expires(meta) THEN schedule \union {expiry_time(meta)} ELSE schedule

(* The end of the PUT that created the stream, with the mutex still held.   *)
created ==
    /\ creating /\ creating' = FALSE
    /\ schedule_expiry(db.meta)
    /\ missed' = FALSE
    /\ UNCHANGED <<vars, maintenance, restarts, failures>>

(* The runtime runs a scheduled action, beside those that are running.      *)
fire(r, t) ==
    /\ t \in schedule /\ t <= clock /\ maintenance[r] = None
    /\ schedule' = schedule \ {t}
    /\ maintenance' = [maintenance EXCEPT ![r] = Look(clock)]
    /\ UNCHANGED <<vars, creating, missed, restarts, failures>>

(* Mutant: the run ends when it finds the stream alive. *)
rearms_never(d) == FALSE

(* A soft-deleted stream waits for its forks, not for its expiry.           *)
rearms(d) == Live(d) /\ expires(d.meta)

(* run_maintenance: it samples the clock once the intents and releases are  *)
(* behind it, and has the mutex later still.  It finds the stream as        *)
(* visible_meta leaves it...                                                *)
run_maintenance(r, now) ==
    /\ maintenance[r] # None /\ maintenance[r].pc = "look" /\ ~creating
    /\ now \in maintenance[r].at .. clock
    /\ visible_meta(now)
    /\ retry_if(lapsed(now))
    /\ maintenance' = [maintenance EXCEPT ![r] =
                          IF rearms(db') THEN Arm(expiry_time(db'.meta)) ELSE None]
    /\ UNCHANGED <<creating, missed, restarts, failures>>

(* ...and, without the mutex, schedules its next expiry.                    *)
rearm(r) ==
    /\ maintenance[r] # None /\ maintenance[r].pc = "arm"
    /\ schedule' = schedule \union {maintenance[r].at}
    /\ maintenance' = [maintenance EXCEPT ![r] = None]
    /\ UNCHANGED <<vars, creating, missed, restarts, failures>>

(* A run ends with an error: in the intents and releases it starts with, in *)
(* the look, or in the scheduling, which can fail in a PUT as well.         *)
fails ==
    /\ failures < MaxFailures /\ failures' = failures + 1 /\ missed' = TRUE
    /\ \/ \E r \in Runs : /\ maintenance[r] # None
                         /\ maintenance' = [maintenance EXCEPT ![r] = None]
                         /\ UNCHANGED creating
       \/ creating /\ creating' = FALSE /\ UNCHANGED maintenance
    /\ UNCHANGED <<vars, schedule, restarts>>

(* Mutant: a restarted actor waits for its first request. *)
starts_without_maintenance == None

on_start == Look(clock)

(* A crash, and the start that follows it: tasks are lost, what is          *)
(* scheduled is not.                                                        *)
restart ==
    /\ restarts < MaxRestarts /\ restarts' = restarts + 1
    /\ boot' = clock /\ touches' = {}
    /\ \E r \in Runs : maintenance' = [NoRuns EXCEPT ![r] = on_start]
    /\ creating' = FALSE /\ missed' = FALSE
    /\ UNCHANGED <<db, clock, gens, held, schedule, failures>>

tick == Tick /\ UNCHANGED timers

Upkeep ==
    \/ created
    \/ \E r \in Runs :
          \/ \E now \in Sampled : run_maintenance(r, now)
          \/ rearm(r)
          \/ \E t \in schedule : fire(r, t)

NextTimers ==
    \/ \E r \in PutRequests, now \in Sampled : put(r, now)
    \/ \E r \in PostRequests, now \in Sampled : post(r, now)
    \/ \E p \in Optional(ProducerHeaders), now \in Sampled : close(p, now)
    \/ \E now \in Sampled : head(now)
    \/ get
    \/ \E now \in touches : touched(now)
    \/ delete
    \/ \E e \in Edges : acquire(e) \/ release(e)
    \/ Upkeep
    \/ fails
    \/ restart
    \/ tick

SpecTimers == InitTimers /\ [][NextTimers]_timervars

(* Time passes, and the runtime runs what is due. *)
FairTimers == SpecTimers /\ WF_timervars(Upkeep) /\ WF_timervars(tick)

-----------------------------------------------------------------------------
(* Properties *)

(* The latest time a stream can expire at if it is left alone from now on.  *)
latest(meta) ==
    IF meta.expires_at # None THEN meta.expires_at ELSE clock + meta.ttl_seconds

(* A stream with an expiry is never without somebody who will look at it in *)
(* time: a scheduled maintenance, one that is running, or the PUT that is   *)
(* still at work; through renewals that schedule nothing, touches and looks *)
(* with an old clock, deletes, recreations and restarts (schedule_expiry,   *)
(* run_maintenance, on_start), and again after a run that failed once the   *)
(* actor has restarted or the stream is another.                            *)
LookedAtInTime ==
    Live(db) /\ expires(db.meta) =>
        \/ creating \/ missed
        \/ \E r \in Runs :
              /\ maintenance[r] # None
              /\ maintenance[r].pc = "arm" => maintenance[r].at <= latest(db.meta)
        \/ \E t \in schedule : t <= latest(db.meta)

(* A stream with an expiry does not stay when nobody asks for it any more,  *)
(* unless a run failed and nothing has made up for it.                      *)
IdleStreamsGo == <>[](Live(db) => ~expires(db.meta) \/ missed)
=============================================================================
