----------------------------- MODULE RedisClients -----------------------------
(***************************************************************************)
(* Redis: a client for any command, with a BlockingClient and a            *)
(* SubscriberClient that are made when they are first used.  auth, select, *)
(* clientSetName and quit go to the blocking client, then to the           *)
(* subscriber, then to the client itself, and may be called by any thread  *)
(* at any time.  shouldShutdownBlockingClient and its twin are plain vars: *)
(* a thread may not see yet what another one has set.                      *)
(*                                                                         *)
(* The clients are what AkkaConnection, Permits and SubscriberConnection   *)
(* make of them: a client remembers what it was last told, a blocking one  *)
(* refuses concurrent users, the subscriber serves one after the other and *)
(* may never answer once it was told to QUIT.                              *)
(***************************************************************************)
EXTENDS FiniteSets

CONSTANTS
    Ops,           \* calls of the user, each on a thread of its own
    Plans,         \* what they may do
    Values, Users, \* of the settings
    InitialValue,  \* of every setting
    NoUser,        \* no user name
    OwnsSystem,    \* is the ActorSystem its own
    Nobody

ASSUME NobodyAssumption == Nobody \notin Ops

Keys == {"auth", "database", "name"}
Inner == {"blocking", "subscriber"}
KeysOf(c) == IF c = "subscriber" THEN {"auth", "name"} ELSE Keys
Setting == [value : Values, user : Users]

ASSUME InitialAssumption == InitialValue \in Values /\ NoUser \in Users
ASSUME PlansAssumption ==
    \A plan \in Plans : \A o \in Ops :
      \/ plan[o].type = "set" /\ plan[o].key \in Keys /\ plan[o].value \in Setting
      \/ plan[o].type = "quit"
      \/ plan[o].type = "use" /\ plan[o].client \in Inner

VARIABLES
    does,        \* does[o]: what the call o does
    step,        \* step[o]: where it stands
    should,      \* should[c]: shouldShutdown of c
    client,      \* client[c]: "absent", "creating", "up", "quit" or "killed"
    settings,    \* settings[c][k]: what c restores its session from
    running,     \* is the ActorSystem
    lock,        \* who holds the lock of the blocking client
    semaphore,   \* who holds the lock of the subscriber
    torn,        \* history: settings of which some client missed a call
    missed       \* history: inner clients that a quit missed
redisVars == <<does, step, should, client, settings, running, lock, semaphore, torn, missed>>

Sets(o) == does[o].type = "set"
Quits(o) == does[o].type = "quit"
About(o) == IF Sets(o) THEN {does[o].key} ELSE {}
Active(o) == step[o] \notin {"new", "done"}
Misses(o, c) ==
    /\ torn' = torn \cup About(o)
    /\ missed' = IF Quits(o) THEN missed \cup {c} ELSE missed
MissesNothing == UNCHANGED <<torn, missed>>
Proceeds(o, stage) == step' = [step EXCEPT ![o] = stage]

(* Only the subscriber is told the user name of an AUTH.                   *)
Told(o, c) == [does[o].value EXCEPT !.user = IF c = "subscriber" THEN @ ELSE NoUser]
Tell(o, c) ==
    settings' = IF Sets(o) THEN [settings EXCEPT ![c][does[o].key] = Told(o, c)] ELSE settings
QuitForgetsTheSubscriber(o) ==
    IF Quits(o) \/ About(o) = {"database"} THEN "main" ELSE "subscriber"
AfterBlocking(o) == IF About(o) = {"database"} THEN "main" ELSE "subscriber"

---------------------------------------------------------------------------
(* auth, clientSetName, select, quit.                                      *)

(* A call that is alone with its setting mends what was torn before.       *)
Call(o) ==
    /\ step[o] = "new" /\ (Sets(o) \/ Quits(o))
    /\ Proceeds(o, "blocking")
    /\ LET alone == \A p \in Ops : Active(p) => About(p) \cap About(o) = {}
           named == Sets(o) /\ does[o].value.user # NoUser
       IN torn' = IF alone /\ ~named THEN torn \ About(o) ELSE torn \cup About(o)
    /\ UNCHANGED <<does, should, client, settings, running, lock, semaphore, missed>>

(* The flag is not set, or this thread does not see that it is.            *)
Overlooks(o, c) ==
    /\ step[o] = c
    /\ Proceeds(o, IF c = "blocking" THEN AfterBlocking(o) ELSE "main")
    /\ IF should[c] THEN Misses(o, c) ELSE MissesNothing
    /\ UNCHANGED <<does, should, client, settings, running, lock, semaphore>>

(* blocking: the lock is taken, or an exception is caught and logged; so   *)
(* it is when the lazy client cannot be made any more.                     *)
AskBlocking(o) ==
    /\ step[o] = "blocking" /\ should["blocking"]
    /\ client["blocking"] # "creating"
    /\ IF lock = Nobody /\ client["blocking"] # "absent"
         THEN /\ lock' = o
              /\ Proceeds(o, "locked")
              /\ IF client["blocking"] = "up"
                   THEN /\ Tell(o, "blocking")
                        /\ client' = IF Quits(o) THEN [client EXCEPT !["blocking"] = "quit"] ELSE client
                   ELSE UNCHANGED <<settings, client>>
              /\ MissesNothing
         ELSE /\ Proceeds(o, AfterBlocking(o))
              /\ Misses(o, "blocking")
              /\ UNCHANGED <<lock, settings, client>>
    /\ UNCHANGED <<does, should, running, semaphore>>

(* The answer, or the end of defaultBlockingTimeout.                       *)
BlockingReturns(o) ==
    /\ step[o] = "locked"
    /\ lock' = Nobody
    /\ Proceeds(o, IF does[o].type = "use" THEN "done" ELSE AfterBlocking(o))
    /\ UNCHANGED <<does, should, client, settings, running, semaphore, torn, missed>>

(* subscriber: its semaphore makes the caller wait.  An exception of the   *)
(* lazy client is the caller's.  After QUIT its futures never complete.    *)
AskSubscriber(o) ==
    /\ step[o] = "subscriber" /\ should["subscriber"]
    /\ client["subscriber"] # "creating"
    /\ IF client["subscriber"] = "absent"
         THEN Proceeds(o, "done") /\ Misses(o, "subscriber") /\ UNCHANGED semaphore
         ELSE /\ semaphore = Nobody /\ semaphore' = o
              /\ Proceeds(o, IF client["subscriber"] = "up" THEN "waiting" ELSE "hanging")
              /\ MissesNothing
    /\ UNCHANGED <<does, should, client, settings, running, lock>>

(* The future of the subscriber; a failure is logged.                      *)
FreedUnlessFailed(o, failed) == IF failed THEN o ELSE Nobody
Freed(o, failed) == Nobody
SubscriberAnswers(o) ==
    /\ step[o] = "waiting"
    /\ Proceeds(o, "main")
    /\ \/ /\ About(o) # {"name"}
          /\ Tell(o, "subscriber")
          /\ semaphore' = Freed(o, FALSE)
          /\ MissesNothing
       \/ /\ Sets(o)
          /\ Tell(o, "subscriber") \/ UNCHANGED settings
          /\ semaphore' = Freed(o, TRUE)
          /\ Misses(o, "subscriber")
    /\ client' = IF Quits(o) THEN [client EXCEPT !["subscriber"] = "quit"] ELSE client
    /\ UNCHANGED <<does, should, running, lock>>

(* The connection is lost between QUIT and its reply, or the listener      *)
(* takes the reply to CLIENT SETNAME, which no Confirm completes.          *)
SubscriberHangs(o) ==
    /\ step[o] = "waiting"
    /\ Quits(o) \/ About(o) = {"name"}
    /\ Proceeds(o, "hanging")
    /\ Tell(o, "subscriber")
    /\ client' = IF Quits(o) THEN [client EXCEPT !["subscriber"] = "quit"] ELSE client
    /\ UNCHANGED <<does, should, running, lock, semaphore, torn, missed>>

(* super.auth, clientSetName, select, quit; refused after QUIT.            *)
AskMain(o) ==
    /\ step[o] = "main"
    /\ IF client["redis"] = "up"
         THEN /\ Tell(o, "redis")
              /\ client' = IF Quits(o) THEN [client EXCEPT !["redis"] = "quit"] ELSE client
              /\ Proceeds(o, IF Quits(o) THEN "terminating" ELSE "done")
              /\ MissesNothing
         ELSE /\ Proceeds(o, "done")
              /\ torn' = torn \cup About(o)
              /\ UNCHANGED <<settings, client, missed>>
    /\ UNCHANGED <<does, should, running, lock, semaphore>>

(* awaitTermination; then an ActorSystem of its own is terminated, with    *)
(* whatever still runs in it; whoever waits for the subscriber waits on.   *)
TerminateSystem(o) ==
    /\ step[o] = "terminating"
    /\ step' = [p \in Ops |-> IF p = o THEN "done"
                             ELSE IF OwnsSystem /\ step[p] = "waiting" THEN "hanging" ELSE step[p]]
    /\ running' = (running /\ ~OwnsSystem)
    /\ client' = IF OwnsSystem
         THEN [c \in DOMAIN client |-> IF client[c] = "up" THEN "killed" ELSE client[c]]
         ELSE client
    /\ UNCHANGED <<does, should, settings, lock, semaphore, torn, missed>>

(* Its own QUIT fails, or its actors are not gone in time: whatever still  *)
(* runs is left running.                                                   *)
QuitFails(o) ==
    /\ step[o] = "terminating"
    /\ Proceeds(o, "done")
    /\ UNCHANGED <<does, should, client, settings, running, lock, semaphore, torn, missed>>

---------------------------------------------------------------------------
(* blocking and subscriber, the lazy vals, which share one monitor.        *)
ValuesOfConstructor == [k \in Keys |-> [value |-> InitialValue, user |-> NoUser]]
ValuesOfRedis == settings["redis"]

BeginUse(o) ==
    /\ step[o] = "new" /\ does[o].type = "use"
    /\ LET c == does[o].client
       IN /\ client[c] = "absent"
          /\ \A d \in Inner : client[d] # "creating"
          /\ should' = [should EXCEPT ![c] = TRUE]
          /\ IF running
               THEN /\ client' = [client EXCEPT ![c] = "creating"]
                    /\ settings' = [settings EXCEPT ![c] = ValuesOfRedis]
                    /\ torn' = torn \cup UNION {About(p) : p \in {q \in Ops : Active(q)}}
                    /\ missed' = IF client["redis"] # "up" \/ \E p \in Ops : Quits(p) /\ Active(p)
                                   THEN missed \cup {c} ELSE missed
                    /\ Proceeds(o, "creating")
               ELSE /\ Proceeds(o, "done")
                    /\ UNCHANGED <<client, settings, torn, missed>>
    /\ UNCHANGED <<does, running, lock, semaphore>>

Construct(o) ==
    /\ step[o] = "creating"
    /\ client' = [client EXCEPT ![does[o].client] = IF running THEN "up" ELSE "absent"]
    /\ Proceeds(o, IF running THEN "using" ELSE "done")
    /\ UNCHANGED <<does, should, settings, running, lock, semaphore, torn, missed>>

UseAgain(o) ==
    /\ step[o] = "new" /\ does[o].type = "use"
    /\ client[does[o].client] \notin {"absent", "creating"}
    /\ Proceeds(o, "using")
    /\ UNCHANGED <<does, should, client, settings, running, lock, semaphore, torn, missed>>

(* A blocking command holds the lock; a second one is refused.             *)
Use(o) ==
    /\ step[o] = "using"
    /\ IF does[o].client = "blocking" /\ lock = Nobody
         THEN Proceeds(o, "locked") /\ lock' = o
         ELSE Proceeds(o, "done") /\ UNCHANGED lock
    /\ UNCHANGED <<does, should, client, settings, running, semaphore, torn, missed>>

---------------------------------------------------------------------------
ClientsInit ==
    /\ step = [o \in Ops |-> "new"]
    /\ should = [c \in Inner |-> FALSE]
    /\ client = [c \in Inner \cup {"redis"} |-> IF c = "redis" THEN "up" ELSE "absent"]
    /\ settings = [c \in Inner \cup {"redis"} |-> ValuesOfConstructor]
    /\ running = TRUE
    /\ lock = Nobody /\ semaphore = Nobody
    /\ torn = {} /\ missed = {}
RedisInit == does \in Plans /\ ClientsInit

Continues(o) ==
    \/ \E c \in Inner : ~should[c] /\ Overlooks(o, c)
    \/ AskBlocking(o) \/ BlockingReturns(o)
    \/ AskSubscriber(o) \/ SubscriberAnswers(o) \/ AskMain(o) \/ TerminateSystem(o)
    \/ Construct(o) \/ Use(o)
RedisStep(o) ==
    \/ Call(o) \/ BeginUse(o) \/ UseAgain(o) \/ Continues(o)
    \/ SubscriberHangs(o) \/ QuitFails(o) \/ \E c \in Inner : Overlooks(o, c)
RedisNext == \E o \in Ops : RedisStep(o)
RedisSpec == RedisInit /\ [][RedisNext]_redisVars

---------------------------------------------------------------------------
(* Properties.                                                             *)

RedisTypeOK ==
    /\ step \in [Ops -> {"new", "blocking", "locked", "subscriber", "waiting", "hanging", "main",
                      "terminating", "creating", "using", "done"}]
    /\ client \in [Inner \cup {"redis"} -> {"absent", "creating", "up", "quit", "killed"}]
    /\ settings \in [Inner \cup {"redis"} -> [Keys -> Setting]]
    /\ lock \in Ops \cup {Nobody} /\ semaphore \in Ops \cup {Nobody}
    /\ torn \subseteq Keys /\ missed \subseteq Inner

(* The clients of a Redis agree on a setting whenever no call about it is  *)
(* under way, also one that is made later; unless two calls about it       *)
(* overlapped, an inner client was made meanwhile, was busy or failed, or  *)
(* its flag was not seen, and no call has been alone since.                *)
ClientsInSync ==
    \A k \in Keys \ torn :
      (\A o \in Ops : Active(o) => k \notin About(o)) =>
        \A c \in Inner :
          client[c] = "up" /\ k \in KeysOf(c) => settings[c][k] = settings["redis"][k]

(* Once a quit has ended, no inner client is left, or was killed without   *)
(* QUIT by the end of the ActorSystem, that was made before and could be   *)
(* seen and locked.                                                        *)
QuitReachesClients ==
    \A o \in Ops :
      Quits(o) /\ step[o] = "done" =>
        \A c \in Inner : client[c] \in {"up", "creating", "killed"} => c \in missed

(* Every call ends, whoever holds the lock and the semaphore and whichever *)
(* client is being made; unless the subscriber was told to QUIT before,    *)
(* loses its connection or its ActorSystem before the reply, or is told    *)
(* its name.                                                               *)
OperationsEnd ==
    \A o \in Ops : Active(o) ~> (step[o] = "done" \/ \E p \in Ops : step[p] = "hanging")

=============================================================================
