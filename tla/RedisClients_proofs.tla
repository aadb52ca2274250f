-------------------------- MODULE RedisClients_proofs --------------------------
(***************************************************************************)
(* What Redis makes of its clients, for any number of calls on any         *)
(* threads: quit reaches the inner clients, and settings stay in sync,     *)
(* but for the races recorded in `missed` and `torn`.                      *)
(***************************************************************************)
EXTENDS RedisClients, TLAPS

Clients == Inner \cup {"redis"}

LEMMA AboutKeys ==
    ASSUME does \in Plans, NEW o \in Ops
    PROVE  /\ About(o) \subseteq Keys
           /\ does[o].type \in {"set", "quit", "use"}
           /\ Sets(o) => does[o].key \in Keys /\ does[o].value \in Setting /\ About(o) = {does[o].key}
           /\ does[o].type = "use" => does[o].client \in Inner
           /\ ~Sets(o) => About(o) = {}
BY PlansAssumption DEF About, Sets

LEMMA ToldIsASetting ==
    ASSUME does \in Plans, NEW o \in Ops, Sets(o), NEW c
    PROVE  /\ Told(o, c) \in Setting
           /\ does[o].value.user = NoUser => Told(o, c) = Told(o, "redis")
BY AboutKeys, InitialAssumption DEF Told, Setting

(* One step of a call moves no other call; the end of the ActorSystem may. *)
LEMMA Moves ==
    ASSUME RedisTypeOK, NEW o \in Ops, NEW stage, Proceeds(o, stage)
    PROVE  step'[o] = stage /\ \A p \in Ops : p # o => step'[p] = step[p]
BY DEF Proceeds, RedisTypeOK

TypeInv == RedisTypeOK /\ does \in Plans /\ should \in [Inner -> BOOLEAN] /\ running \in BOOLEAN

LEMMA TellType ==
    ASSUME TypeInv, NEW o \in Ops, NEW c \in Clients, Tell(o, c)
    PROVE  settings' \in [Clients -> [Keys -> Setting]]
<1>1. CASE Sets(o)
  BY <1>1, AboutKeys, ToldIsASetting DEF Tell, TypeInv, RedisTypeOK, Clients
<1>2. CASE ~Sets(o)
  BY <1>2 DEF Tell, TypeInv, RedisTypeOK, Clients
<1> QED BY <1>1, <1>2

LEMMA StepType ==
    ASSUME TypeInv, NEW o \in Ops, RedisStep(o)
    PROVE  TypeInv'
<1> USE DEF TypeInv, RedisTypeOK
<1>a. About(o) \subseteq Keys /\ "blocking" \in Inner /\ "subscriber" \in Inner
  BY AboutKeys DEF Inner
<1>b. AfterBlocking(o) \in {"main", "subscriber"}
  BY DEF AfterBlocking
<1>1. CASE Call(o) BY <1>1, <1>a DEF Call, Proceeds
<1>2. ASSUME NEW c \in Inner, Overlooks(o, c) PROVE TypeInv'
  BY <1>2, <1>a, <1>b DEF Overlooks, Proceeds, Misses, MissesNothing
<1>3. CASE AskBlocking(o)
  <2>1. settings' \in [Clients -> [Keys -> Setting]]
    BY <1>3, TellType DEF AskBlocking, Clients, Inner
  <2> QED BY <1>3, <2>1, <1>a, <1>b DEF AskBlocking, Proceeds, Misses, MissesNothing, Clients
<1>4. CASE BlockingReturns(o) BY <1>4, <1>b DEF BlockingReturns, Proceeds
<1>5. CASE AskSubscriber(o) BY <1>5, <1>a DEF AskSubscriber, Proceeds, Misses, MissesNothing
<1>6. CASE SubscriberAnswers(o)
  <2>1. settings' \in [Clients -> [Keys -> Setting]]
    BY <1>6, TellType DEF SubscriberAnswers, Clients, Inner
  <2> QED BY <1>6, <2>1, <1>a DEF SubscriberAnswers, Proceeds, Misses, MissesNothing, Freed, Clients
<1>7. CASE SubscriberHangs(o)
  <2>1. settings' \in [Clients -> [Keys -> Setting]]
    BY <1>7, TellType DEF SubscriberHangs, Clients, Inner
  <2> QED BY <1>7, <2>1 DEF SubscriberHangs, Proceeds, Clients
<1>8. CASE AskMain(o)
  <2>1. settings' \in [Clients -> [Keys -> Setting]]
    BY <1>8, TellType DEF AskMain, Clients
  <2> QED BY <1>8, <2>1, <1>a DEF AskMain, Proceeds, MissesNothing, Clients
<1>9. CASE TerminateSystem(o) BY <1>9 DEF TerminateSystem
<1>9a. CASE QuitFails(o) BY <1>9a DEF QuitFails, Proceeds
<1>10. CASE BeginUse(o)
  <2>1. does[o].client \in Inner BY <1>10, AboutKeys DEF BeginUse
  <2>2. UNION {About(p) : p \in {q \in Ops : Active(q)}} \subseteq Keys BY AboutKeys
  <2>3. ValuesOfRedis \in [Keys -> Setting] BY DEF ValuesOfRedis
  <2>4. step' \in [Ops -> {"new", "blocking", "locked", "subscriber", "waiting", "hanging", "main",
                            "terminating", "creating", "using", "done"}]
    BY <1>10 DEF BeginUse, Proceeds
  <2>5. client' \in [Inner \cup {"redis"} -> {"absent", "creating", "up", "quit", "killed"}]
    BY <1>10, <2>1 DEF BeginUse
  <2>6. settings' \in [Inner \cup {"redis"} -> [Keys -> Setting]]
    BY <1>10, <2>1, <2>3 DEF BeginUse
  <2>7. torn' \subseteq Keys
    <3>1. torn' = torn \/ torn' = torn \cup UNION {About(p) : p \in {q \in Ops : Active(q)}}
      BY <1>10 DEF BeginUse
    <3> QED BY <3>1, <2>2
  <2>8. missed' \subseteq Inner
    BY <1>10, <2>1 DEF BeginUse
  <2>9. should' \in [Inner -> BOOLEAN]
    BY <1>10, <2>1 DEF BeginUse
  <2> QED BY <1>10, <2>4, <2>5, <2>6, <2>7, <2>8, <2>9 DEF BeginUse
<1>11. CASE Construct(o) BY <1>11 DEF Construct, Proceeds
<1>12. CASE UseAgain(o) BY <1>12 DEF UseAgain, Proceeds
<1>13. CASE Use(o) BY <1>13 DEF Use, Proceeds
<1> QED
  BY <1>1, <1>2, <1>3, <1>4, <1>5, <1>6, <1>7, <1>8, <1>9, <1>9a, <1>10, <1>11, <1>12, <1>13
  DEF RedisStep, Continues

LEMMA InitType == RedisInit => TypeInv
BY InitialAssumption
   DEF RedisInit, ClientsInit, TypeInv, RedisTypeOK, ValuesOfConstructor, Setting, Keys, Inner

LEMMA StutterType == TypeInv /\ UNCHANGED redisVars => TypeInv'
BY DEF TypeInv, RedisTypeOK, redisVars

---------------------------------------------------------------------------
(* quit.                                                                   *)

(* What the flags, the clients and the ActorSystem say of one another.     *)
FlagInv ==
    /\ \A c \in Inner : client[c] # "absent" => should[c]
    /\ \A c \in Inner : should[c] /\ client[c] = "absent" => ~running
    /\ ~running => client["redis"] # "up"

(* What a call at a certain place knows.                                   *)
PlaceInv ==
    /\ \A o \in Ops : step[o] = "terminating" => Quits(o)
    /\ \A o \in Ops : step[o] \in {"creating", "using"} => does[o].type = "use"
    /\ \A o \in Ops : step[o] = "creating" => client[does[o].client] = "creating"
    /\ \A o, p \in Ops : step[o] = "creating" /\ step[p] = "creating" => o = p
    /\ \A o \in Ops : step[o] = "waiting" => client["subscriber"] \notin {"absent", "creating"}
    /\ \A o \in Ops : Quits(o) /\ step[o] \in {"terminating", "done"} => client["redis"] # "up"

(* Past a client, a quit has left it behind only if it missed it.          *)
Left(c) == client[c] \in {"up", "creating", "killed"}
ReachInv ==
    /\ \A c \in Inner : client[c] = "killed" => c \in missed
    /\ \A o \in Ops :
         Quits(o) /\ step[o] \notin {"new", "blocking"} /\ Left("blocking") => "blocking" \in missed
    /\ \A o \in Ops :
         Quits(o) /\ step[o] \in {"main", "terminating", "done"} /\ Left("subscriber") => "subscriber" \in missed

QuitInv == TypeInv /\ FlagInv /\ PlaceInv /\ ReachInv

LEMMA QuitStep ==
    ASSUME QuitInv, NEW o \in Ops, RedisStep(o)
    PROVE  FlagInv' /\ PlaceInv' /\ ReachInv'
<1> USE DEF QuitInv, FlagInv, PlaceInv, ReachInv, Left, TypeInv, RedisTypeOK
<1>a. "blocking" \in Inner /\ "subscriber" \in Inner /\ "redis" \notin Inner
      /\ \A c \in Inner : c = "blocking" \/ c = "subscriber"
  BY DEF Inner
<1>b. AfterBlocking(o) \in {"main", "subscriber"} /\ (Quits(o) => AfterBlocking(o) = "subscriber")
  BY DEF AfterBlocking, Quits, About, Sets
<1>c. \A p \in Ops : Quits(p) => does[p].type # "use" /\ ~Sets(p)
  BY DEF Quits, Sets
<1>1. CASE Call(o)
  <2> QED BY <1>1, <1>a, <1>c DEF Call, Proceeds, Quits
<1>2. ASSUME NEW c \in Inner, Overlooks(o, c) PROVE FlagInv' /\ PlaceInv' /\ ReachInv'
  BY <1>2, <1>a, <1>b, <1>c DEF Overlooks, Proceeds, Misses, MissesNothing, Quits
<1>3. CASE AskBlocking(o)
  <2>1. \A p \in Ops : p # o => step'[p] = step[p]
    BY <1>3, Moves DEF AskBlocking
  <2>2. /\ step'[o] \in {"locked", "main", "subscriber"} /\ step[o] = "blocking"
        /\ Quits(o) => step'[o] # "main"
        /\ UNCHANGED <<does, should, running>> /\ missed \subseteq missed'
    BY <1>3, <1>b, Moves DEF AskBlocking, Misses, MissesNothing
  <2>3. \A c \in Clients : client'[c] = client[c] \/ (client[c] = "up" /\ client'[c] = "quit" /\ c = "blocking")
    BY <1>3, <1>a DEF AskBlocking, Clients
  <2>4. Quits(o) => "blocking" \in missed' \/ client'["blocking"] = "quit" \/ client["blocking"] = "killed"
    BY <1>3, <1>a, <1>c DEF AskBlocking, Misses
  <2>5. FlagInv' BY <2>2, <2>3, <1>a DEF Clients
  <2>6. PlaceInv' 
    <3>1. \A p \in Ops : step'[p] \in {"terminating", "creating", "using", "waiting", "done"} => step'[p] = step[p]
      BY <2>1, <2>2
    <3>2. \A c \in Clients : client[c] # "up" => client'[c] = client[c]
      BY <2>3
    <3> QED BY <3>1, <3>2, <2>2, <2>3, <1>a, AboutKeys DEF Clients, Quits
  <2>7. ReachInv' BY <2>1, <2>2, <2>3, <2>4, <1>a DEF Clients, Quits
  <2> QED BY <2>5, <2>6, <2>7
<1>4. CASE BlockingReturns(o)
  BY <1>4, <1>a, <1>b, <1>c DEF BlockingReturns, Proceeds, Quits
<1>5. CASE AskSubscriber(o)
  BY <1>5, <1>a, <1>c DEF AskSubscriber, Proceeds, Misses, MissesNothing, Quits
<1>6. CASE SubscriberAnswers(o)
  <2>1. /\ \A p \in Ops : p # o => step'[p] = step[p]
        /\ step'[o] = "main" /\ step[o] = "waiting"
        /\ UNCHANGED <<does, should, running>> /\ missed \subseteq missed'
    BY <1>6, Moves DEF SubscriberAnswers, Misses, MissesNothing
  <2>2. \A c \in Clients : client'[c] = client[c] \/ (c = "subscriber" /\ client'[c] = "quit")
    BY <1>6, <1>a DEF SubscriberAnswers, Clients
  <2>3. Quits(o) => client'["subscriber"] = "quit"
    BY <1>6, <1>a DEF SubscriberAnswers
  <2>4. FlagInv' BY <2>1, <2>2, <1>a DEF Clients
  <2>5. PlaceInv'
    <3>1. \A p \in Ops : step'[p] \in {"terminating", "creating", "using", "waiting", "done"} => step'[p] = step[p]
      BY <2>1
    <3> QED BY <3>1, <2>1, <2>2, <1>a, AboutKeys DEF Clients, Quits
  <2>6. ReachInv' BY <2>1, <2>2, <2>3, <1>a DEF Clients, Quits
  <2> QED BY <2>4, <2>5, <2>6
<1>7. CASE SubscriberHangs(o)
  BY <1>7, <1>a, <1>c DEF SubscriberHangs, Proceeds, Quits
<1>8. CASE AskMain(o)
  <2>1. /\ \A p \in Ops : p # o => step'[p] = step[p]
        /\ step'[o] \in {"terminating", "done"} /\ step[o] = "main"
        /\ step'[o] = "terminating" => Quits(o)
        /\ UNCHANGED <<does, should, running, missed>>
    BY <1>8, Moves DEF AskMain, MissesNothing
  <2>2. \A c \in Clients : client'[c] = client[c] \/ (c = "redis" /\ client[c] = "up" /\ client'[c] = "quit")
    BY <1>8, <1>a DEF AskMain, Clients
  <2>3. Quits(o) => client'["redis"] # "up"
    BY <1>8, <1>a DEF AskMain
  <2>4. FlagInv' BY <2>1, <2>2, <1>a DEF Clients
  <2>5. PlaceInv' BY <2>1, <2>2, <2>3, <1>a, AboutKeys DEF Clients, Quits
  <2>6. ReachInv' BY <2>1, <2>2, <1>a DEF Clients, Quits
  <2> QED BY <2>4, <2>5, <2>6
<1>9. CASE TerminateSystem(o)
  <2>1. /\ step'[o] = "done" /\ step[o] = "terminating" /\ Quits(o)
        /\ \A p \in Ops : p # o => step'[p] = step[p] \/ (step[p] = "waiting" /\ step'[p] = "hanging")
        /\ UNCHANGED <<does, should, missed>> /\ running' \in BOOLEAN
        /\ client["redis"] # "up"
    BY <1>9 DEF TerminateSystem
  <2>2. \A c \in Clients : client'[c] = client[c] \/ (client[c] = "up" /\ client'[c] = "killed")
    BY <1>9 DEF TerminateSystem, Clients
  <2>3. Left("blocking") => "blocking" \in missed
    BY <2>1
  <2>4. Left("subscriber") => "subscriber" \in missed
    BY <2>1
  <2>5. FlagInv'
    BY <1>9, <2>1, <2>2, <1>a DEF Clients, TerminateSystem
  <2>6. PlaceInv'
    <3>1. \A p \in Ops : step'[p] \in {"terminating", "creating", "using", "waiting"} => step'[p] = step[p]
      BY <2>1
    <3>2. client'["redis"] # "up" BY <2>1, <2>2 DEF Clients
    <3> QED BY <3>1, <3>2, <2>1, <2>2, <1>a, AboutKeys DEF Clients, Quits
  <2>7. ReachInv' BY <2>1, <2>2, <2>3, <2>4, <1>a DEF Clients, Quits
  <2> QED BY <2>5, <2>6, <2>7
<1>9a. CASE QuitFails(o)
  BY <1>9a, <1>a, <1>c DEF QuitFails, Proceeds, Quits
<1>10. CASE BeginUse(o)
  <2>1. does[o].client \in Inner BY <1>10, AboutKeys DEF BeginUse
  <2> DEFINE c == does[o].client
  <2>2. CASE running
    <3>1. /\ \A p \in Ops : p # o => step'[p] = step[p]
          /\ step'[o] = "creating" /\ step[o] = "new" /\ does[o].type = "use"
          /\ UNCHANGED <<does, running>> /\ missed \subseteq missed'
      BY <1>10, <2>2, Moves DEF BeginUse
    <3>2. /\ client[c] = "absent" /\ client'[c] = "creating" /\ should'[c]
          /\ \A d \in Clients : d # c => client'[d] = client[d]
          /\ \A d \in Inner : d # c => should'[d] = should[d]
          /\ \A d \in Inner : client[d] # "creating"
      BY <1>10, <2>1, <2>2 DEF BeginUse, Clients
    <3>3. client["redis"] # "up" \/ (\E p \in Ops : Quits(p) /\ Active(p)) => c \in missed'
      BY <1>10, <2>1, <2>2 DEF BeginUse
    <3>4. FlagInv' BY <3>1, <3>2, <2>1, <2>2, <1>a DEF Clients
    <3>5. PlaceInv'
      <4>1. \A p \in Ops : step[p] # "creating" BY <3>2, AboutKeys
      <4>2. ~Quits(o) BY <3>1, <1>c
      <4>3. client'["redis"] = client["redis"] BY <3>2, <2>1, <1>a DEF Clients
      <4> QED BY <3>1, <3>2, <4>1, <4>2, <4>3, <2>1, <1>a, AboutKeys DEF Clients, Quits
    <3>6. ReachInv'
      <4>1. \A p \in Ops : Quits(p) /\ step'[p] \notin {"new", "blocking"} => p # o /\ c \in missed'
        BY <3>1, <3>3, <1>c DEF Active, Quits
      <4> QED BY <4>1, <3>1, <3>2, <2>1, <1>a DEF Clients, Quits
    <3> QED BY <3>4, <3>5, <3>6
  <2>3. CASE ~running
    BY <1>10, <2>1, <2>3, <1>a, <1>c DEF BeginUse, Proceeds, Quits
  <2> QED BY <2>2, <2>3
<1>11. CASE Construct(o)
  <2>1. does[o].client \in Inner BY <1>11, AboutKeys DEF Construct
  <2> QED BY <1>11, <2>1, <1>a, <1>c DEF Construct, Proceeds, Quits
<1>12. CASE UseAgain(o) BY <1>12, <1>a, <1>c DEF UseAgain, Proceeds, Quits
<1>13. CASE Use(o) BY <1>13, <1>a, <1>c DEF Use, Proceeds, Quits
<1> QED
  BY <1>1, <1>2, <1>3, <1>4, <1>5, <1>6, <1>7, <1>8, <1>9, <1>9a, <1>10, <1>11, <1>12, <1>13
  DEF RedisStep, Continues

LEMMA QuitInit == RedisInit => QuitInv
<1> SUFFICES ASSUME RedisInit PROVE QuitInv
  OBVIOUS
<1>1. FlagInv /\ PlaceInv /\ ReachInv
  BY DEF RedisInit, ClientsInit, FlagInv, PlaceInv, ReachInv, Left, Inner
<1> QED BY <1>1, InitType DEF QuitInv

LEMMA QuitInvStep == QuitInv /\ [RedisNext]_redisVars => QuitInv'
<1> SUFFICES ASSUME QuitInv, [RedisNext]_redisVars PROVE QuitInv'
  OBVIOUS
<1>1. ASSUME NEW o \in Ops, RedisStep(o) PROVE QuitInv'
  BY <1>1, StepType, QuitStep DEF QuitInv
<1>2. CASE UNCHANGED redisVars
  BY <1>2, StutterType DEF QuitInv, FlagInv, PlaceInv, ReachInv, Left, Quits, redisVars
<1> QED BY <1>1, <1>2 DEF RedisNext

(* Redis.md: "Upon executing redis.quit(), the non-blocking client as well *)
(* as all initialized clients will be sending a QUIT command": no client   *)
(* is left behind by a quit that has ended, but for those it missed.       *)
THEOREM QuitReachesTheClients == RedisSpec => []QuitReachesClients
<1>1. QuitInv => QuitReachesClients
  BY DEF QuitInv, ReachInv, Left, QuitReachesClients, Inner
<1> QED BY <1>1, QuitInit, QuitInvStep, PTL DEF RedisSpec

---------------------------------------------------------------------------
(* auth, select and clientSetName.                                         *)

(* A setting k that is not torn: one call at a time is about it; the       *)
(* clients this call has passed have what it will tell the main client;    *)
(* and without such a call all have what the main client has.              *)
Live(c) == client[c] \in {"up", "creating"}
Nears(o, k) == Active(o) /\ k \in About(o)
Passed(o, k) ==
    /\ does[o].value.user = NoUser
    /\ step[o] \in {"locked", "subscriber", "waiting", "main"} /\ Live("blocking") =>
         settings["blocking"][k] = Told(o, "redis")
    /\ step[o] = "main" /\ Live("subscriber") /\ k # "database" =>
         settings["subscriber"][k] = Told(o, "redis")
Agree(k) ==
    \A c \in Inner : Live(c) /\ k \in KeysOf(c) => settings[c][k] = settings["redis"][k]
Sync(k) ==
    /\ \A o, p \in Ops : Nears(o, k) /\ Nears(p, k) => o = p
    /\ \A o \in Ops : Nears(o, k) => Passed(o, k)
    /\ (\A o \in Ops : ~Nears(o, k)) => Agree(k)

(* A call that is not about k leaves k as it is.                           *)
LEMMA OthersKeepSync ==
    ASSUME TypeInv, NEW k \in Keys, Sync(k), NEW o \in Ops, k \notin About(o), UNCHANGED does,
           \A p \in Ops : p # o => step'[p] = step[p] \/ (step[p] = "waiting" /\ step'[p] = "hanging"),
           \A c \in Inner : Live(c)' => Live(c),
           \A c \in Clients : settings'[c][k] = settings[c][k]
    PROVE  Sync(k)'
<1>1. \A p \in Ops : About(p)' = About(p) /\ Told(p, "redis")' = Told(p, "redis")
  BY DEF About, Sets, Told
<1>2. \A p \in Ops : Nears(p, k)' <=> Nears(p, k)
  BY <1>1 DEF Nears, Active
<1>3. \A p \in Ops : Nears(p, k) /\ Passed(p, k) => Passed(p, k)'
  <2> SUFFICES ASSUME NEW p \in Ops, Nears(p, k), Passed(p, k) PROVE Passed(p, k)'
    OBVIOUS
  <2>1. step'[p] = step[p] \/ (step[p] = "waiting" /\ step'[p] = "hanging")
    BY DEF Nears
  <2>2. "blocking" \in Inner /\ "subscriber" \in Inner
    BY DEF Inner
  <2> QED BY <1>1, <2>1, <2>2 DEF Passed, Clients
<1>4. Agree(k) => Agree(k)'
  BY DEF Agree, Clients, KeysOf
<1> QED BY <1>2, <1>3, <1>4 DEF Sync

LEMMA TellsOwn ==
    ASSUME TypeInv, NEW o \in Ops, NEW c \in Clients, Tell(o, c), NEW k \in Keys
    PROVE  /\ k \notin About(o) => \A d \in Clients : settings'[d][k] = settings[d][k]
           /\ k \in About(o) => settings'[c][k] = Told(o, c)
           /\ \A d \in Clients : d # c => settings'[d] = settings[d]
BY AboutKeys DEF Tell, TypeInv, RedisTypeOK, Clients

(* What a step about k does, given where it goes.                          *)
LEMMA OwnKeepsSync ==
    ASSUME TypeInv, NEW k \in Keys, Sync(k), NEW o \in Ops, Nears(o, k), Active(o)',
           UNCHANGED does, \A p \in Ops : p # o => step'[p] = step[p],
           Passed(o, k)'
    PROVE  Sync(k)'
<1>1. \A p \in Ops : About(p)' = About(p)
  BY DEF About, Sets
<1>2. \A p \in Ops : Nears(p, k)' => p = o
  BY <1>1 DEF Sync, Nears, Active
<1>3. Nears(o, k)'
  BY <1>1 DEF Nears
<1> QED BY <1>2, <1>3 DEF Sync

LEMMA SyncStep ==
    ASSUME TypeInv, FlagInv, PlaceInv, NEW o \in Ops, RedisStep(o),
           NEW k \in Keys, k \notin torn', k \notin torn => Sync(k)
    PROVE  Sync(k)'
<1> USE DEF TypeInv, RedisTypeOK
<1>a. /\ "blocking" \in Inner /\ "subscriber" \in Inner /\ "redis" \notin Inner
      /\ Inner \subseteq Clients /\ "redis" \in Clients
      /\ \A c \in Inner : c = "blocking" \/ c = "subscriber"
  BY DEF Inner, Clients
<1>b. /\ k \in About(o) => Sets(o) /\ ~Quits(o) /\ does[o].type # "use"
      /\ k \in About(o) => AfterBlocking(o) = IF k = "database" THEN "main" ELSE "subscriber"
      /\ Quits(o) \/ does[o].type = "use" => k \notin About(o)
  BY AboutKeys DEF Sets, Quits, AfterBlocking
<1>c. k \in About(o) => Told(o, "blocking") = Told(o, "redis")
  BY DEF Told
<1>d. k \in About(o) /\ does[o].value.user = NoUser => Told(o, "subscriber") = Told(o, "redis")
  BY <1>b, ToldIsASetting
<1>1. CASE Call(o)
  <2>1. /\ UNCHANGED <<does, client, settings>> /\ step[o] = "new" /\ step'[o] = "blocking"
        /\ \A p \in Ops : p # o => step'[p] = step[p]
    BY <1>1, Moves DEF Call
  <2>2. CASE k \notin About(o)
    <3>1. k \notin torn BY <1>1, <2>2 DEF Call
    <3> QED BY <3>1, <2>1, <2>2, OthersKeepSync DEF Live
  <2>3. CASE k \in About(o)
    <3>1. /\ \A p \in Ops : Active(p) => k \notin About(p)
          /\ does[o].value.user = NoUser
      BY <1>1, <1>b, <2>3 DEF Call
    <3>2. \A p \in Ops : Nears(p, k)' => p = o
      BY <2>1, <3>1 DEF Nears, Active, About, Sets
    <3>3. Nears(o, k)' /\ Passed(o, k)'
      BY <2>1, <2>3, <3>1 DEF Nears, Active, About, Sets, Passed
    <3> QED BY <3>2, <3>3 DEF Sync
  <2> QED BY <2>2, <2>3
<1>2. CASE ~Call(o) /\ ~BeginUse(o)
  <2>1. k \notin torn /\ UNCHANGED does
    BY <1>2 DEF RedisStep, Continues, UseAgain, AskBlocking, BlockingReturns, AskSubscriber, SubscriberAnswers,
                SubscriberHangs, AskMain, TerminateSystem, QuitFails, Construct, Use, Overlooks, Misses, MissesNothing
  <2>s. Sync(k) BY <2>1
  <2>2. ASSUME NEW c \in Inner, Overlooks(o, c) PROVE Sync(k)'
    <3>1. /\ UNCHANGED <<client, settings>> /\ step[o] = c
          /\ step'[o] = IF c = "blocking" THEN AfterBlocking(o) ELSE "main"
          /\ \A p \in Ops : p # o => step'[p] = step[p]
      BY <2>2, Moves DEF Overlooks
    <3>2. CASE k \notin About(o)
      BY <3>1, <3>2, <2>1, <2>s, OthersKeepSync DEF Live
    <3>3. CASE k \in About(o)
      <4>1. ~should[c] /\ client[c] = "absent"
        BY <2>2, <3>3 DEF Overlooks, Misses, FlagInv
      <4>2. Nears(o, k) /\ Active(o)' /\ Passed(o, k)
        BY <3>1, <3>3, <1>a, <1>b, <2>s DEF Nears, Active, Sync
      <4>3. Told(o, "redis")' = Told(o, "redis")
        BY <2>1 DEF Told
      <4>4. Passed(o, k)'
        BY <4>1, <4>2, <4>3, <3>1, <3>3, <2>1, <1>a, <1>b DEF Passed, Live
      <4> QED BY <4>2, <4>4, <3>1, <2>1, <2>s, OwnKeepsSync
    <3> QED BY <3>2, <3>3
  <2>3. CASE AskBlocking(o)
    <3>1. /\ \A p \in Ops : p # o => step'[p] = step[p]
          /\ step[o] = "blocking" /\ step'[o] \in {"locked", AfterBlocking(o)}
      BY <2>3, Moves DEF AskBlocking
    <3>2. \A c \in Inner : Live(c)' => Live(c)
      BY <2>3, <1>a DEF AskBlocking, Live
    <3>3. CASE k \notin About(o)
      <4>1. \A c \in Clients : settings'[c][k] = settings[c][k]
        BY <2>3, <3>3, <1>a, TellsOwn DEF AskBlocking
      <4> QED BY <4>1, <3>1, <3>2, <3>3, <2>1, <2>s, OthersKeepSync
    <3>4. CASE k \in About(o)
      <4>1. step'[o] = "locked" /\ lock = Nobody /\ client["blocking"] \notin {"absent", "creating"}
        BY <2>3, <3>4, Moves DEF AskBlocking, Misses
      <4>2. Live("blocking")' => settings'["blocking"][k] = Told(o, "redis")
        <5>1. CASE client["blocking"] = "up"
          BY <5>1, <4>1, <2>3, <3>4, <1>a, <1>c, TellsOwn DEF AskBlocking
        <5>2. CASE client["blocking"] # "up"
          BY <5>2, <4>1, <3>2, <1>a DEF Live
        <5> QED BY <5>1, <5>2
      <4>3. Nears(o, k) /\ Active(o)' /\ Passed(o, k)
        BY <3>1, <3>4, <4>1, <2>s DEF Nears, Active, Sync
      <4>4. Told(o, "redis")' = Told(o, "redis")
        BY <2>1 DEF Told
      <4>5. Passed(o, k)'
        BY <4>1, <4>2, <4>3, <4>4, <2>1 DEF Passed
      <4> QED BY <4>3, <4>5, <3>1, <2>1, <2>s, OwnKeepsSync
    <3> QED BY <3>3, <3>4
  <2>4. CASE BlockingReturns(o)
    <3>1. /\ UNCHANGED <<client, settings>> /\ step[o] = "locked"
          /\ step'[o] = IF does[o].type = "use" THEN "done" ELSE AfterBlocking(o)
          /\ \A p \in Ops : p # o => step'[p] = step[p]
      BY <2>4, Moves DEF BlockingReturns
    <3>2. CASE k \notin About(o)
      BY <3>1, <3>2, <2>1, <2>s, OthersKeepSync DEF Live
    <3>3. CASE k \in About(o)
      <4>1. Nears(o, k) /\ Active(o)' /\ Passed(o, k)
        BY <3>1, <3>3, <1>b, <2>s DEF Nears, Active, Sync
      <4>2. Told(o, "redis")' = Told(o, "redis")
        BY <2>1 DEF Told
      <4>3. Passed(o, k)'
        BY <4>1, <4>2, <3>1, <3>3, <2>1, <1>b DEF Passed, Live
      <4> QED BY <4>1, <4>3, <3>1, <2>1, <2>s, OwnKeepsSync
    <3> QED BY <3>2, <3>3
  <2>5. CASE AskSubscriber(o)
    <3>1. /\ UNCHANGED <<client, settings>> /\ step[o] = "subscriber"
          /\ \A p \in Ops : p # o => step'[p] = step[p]
      BY <2>5, Moves DEF AskSubscriber
    <3>2. CASE k \notin About(o)
      BY <3>1, <3>2, <2>1, <2>s, OthersKeepSync DEF Live
    <3>3. CASE k \in About(o)
      <4>0. step'[o] \in {"waiting", "hanging"}
        BY <2>5, <3>3, Moves DEF AskSubscriber, Misses
      <4>1. Nears(o, k) /\ Active(o)' /\ Passed(o, k)
        BY <3>1, <3>3, <4>0, <2>s DEF Nears, Active, Sync
      <4>2. Told(o, "redis")' = Told(o, "redis")
        BY <2>1 DEF Told
      <4>3. Passed(o, k)'
        BY <4>0, <4>1, <4>2, <3>1, <3>3, <2>1 DEF Passed, Live
      <4> QED BY <4>1, <4>3, <3>1, <2>1, <2>s, OwnKeepsSync
    <3> QED BY <3>2, <3>3
  <2>6. CASE SubscriberAnswers(o)
    <3>1. /\ step[o] = "waiting" /\ step'[o] = "main"
          /\ \A p \in Ops : p # o => step'[p] = step[p]
      BY <2>6, Moves DEF SubscriberAnswers
    <3>2. \A c \in Inner : Live(c)' => Live(c)
      BY <2>6, <1>a DEF SubscriberAnswers, Live
    <3>3. CASE k \notin About(o)
      <4>1. \A c \in Clients : settings'[c][k] = settings[c][k]
        BY <2>6, <3>3, <1>a, TellsOwn DEF SubscriberAnswers
      <4> QED BY <4>1, <3>1, <3>2, <3>3, <2>1, <2>s, OthersKeepSync
    <3>4. CASE k \in About(o)
      <4>1. Nears(o, k) /\ Active(o)' /\ Passed(o, k)
        BY <3>1, <3>4, <2>s DEF Nears, Active, Sync
      <4>2. Tell(o, "subscriber")
        BY <2>6, <3>4 DEF SubscriberAnswers, Misses
      <4>3. settings'["subscriber"][k] = Told(o, "redis") /\ settings'["blocking"] = settings["blocking"]
        BY <4>1, <4>2, <3>4, <1>a, <1>d, TellsOwn DEF Passed
      <4>4. Told(o, "redis")' = Told(o, "redis")
        BY <2>1 DEF Told
      <4>5. Passed(o, k)'
        BY <4>1, <4>3, <4>4, <3>1, <3>2, <2>1, <1>a DEF Passed
      <4> QED BY <4>1, <4>5, <3>1, <2>1, <2>s, OwnKeepsSync
    <3> QED BY <3>3, <3>4
  <2>7. CASE SubscriberHangs(o)
    <3>1. /\ step[o] = "waiting" /\ step'[o] = "hanging"
          /\ \A p \in Ops : p # o => step'[p] = step[p]
      BY <2>7, Moves DEF SubscriberHangs
    <3>2. \A c \in Inner : Live(c)' => Live(c)
      BY <2>7, <1>a DEF SubscriberHangs, Live
    <3>3. CASE k \notin About(o)
      <4>1. \A c \in Clients : settings'[c][k] = settings[c][k]
        BY <2>7, <3>3, <1>a, TellsOwn DEF SubscriberHangs
      <4> QED BY <4>1, <3>1, <3>2, <3>3, <2>1, <2>s, OthersKeepSync
    <3>4. CASE k \in About(o)
      <4>1. Nears(o, k) /\ Active(o)' /\ Passed(o, k)
        BY <3>1, <3>4, <2>s DEF Nears, Active, Sync
      <4>2. Passed(o, k)'
        BY <4>1, <3>1, <2>1 DEF Passed
      <4> QED BY <4>1, <4>2, <3>1, <2>1, <2>s, OwnKeepsSync
    <3> QED BY <3>3, <3>4
  <2>8. CASE AskMain(o)
    <3>1. /\ step[o] = "main" /\ step'[o] \in {"terminating", "done"}
          /\ \A p \in Ops : p # o => step'[p] = step[p]
      BY <2>8, Moves DEF AskMain
    <3>2. \A c \in Inner : Live(c)' <=> Live(c)
      BY <2>8, <1>a DEF AskMain, Live
    <3>3. CASE k \notin About(o)
      <4>1. \A c \in Clients : settings'[c][k] = settings[c][k]
        BY <2>8, <3>3, <1>a, TellsOwn DEF AskMain
      <4> QED BY <4>1, <3>1, <3>2, <3>3, <2>1, <2>s, OthersKeepSync
    <3>4. CASE k \in About(o)
      <4>1. Nears(o, k) /\ Passed(o, k) /\ \A p \in Ops : Nears(p, k) => p = o
        BY <3>1, <3>4, <2>s DEF Nears, Active, Sync
      <4>2. client["redis"] = "up" /\ Tell(o, "redis") /\ step'[o] = "done"
        BY <2>8, <3>4, <1>b, Moves DEF AskMain
      <4>3. /\ settings'["redis"][k] = Told(o, "redis")
            /\ \A c \in Inner : settings'[c] = settings[c]
        BY <4>2, <3>4, <1>a, TellsOwn
      <4>4. \A p \in Ops : ~Nears(p, k)'
        BY <4>1, <4>2, <3>1, <2>1 DEF Nears, Active, About, Sets
      <4>5. Agree(k)'
        BY <4>1, <4>3, <3>1, <3>2, <1>a DEF Agree, Passed, KeysOf
      <4> QED BY <4>4, <4>5 DEF Sync
    <3> QED BY <3>3, <3>4
  <2>9. CASE TerminateSystem(o)
    <3>1. /\ k \notin About(o) /\ UNCHANGED settings
          /\ \A p \in Ops : p # o => step'[p] = step[p] \/ (step[p] = "waiting" /\ step'[p] = "hanging")
      BY <2>9, <1>b DEF TerminateSystem, PlaceInv
    <3>2. \A c \in Inner : Live(c)' => Live(c)
      BY <2>9, <1>a DEF TerminateSystem, Live
    <3> QED BY <3>1, <3>2, <2>1, <2>s, OthersKeepSync
  <2>9a. CASE QuitFails(o)
    <3>1. /\ k \notin About(o) /\ UNCHANGED <<settings, client>>
          /\ \A p \in Ops : p # o => step'[p] = step[p]
      BY <2>9a, <1>b, Moves DEF QuitFails, PlaceInv
    <3> QED BY <3>1, <2>1, <2>s, OthersKeepSync DEF Live
  <2>10. CASE Construct(o)
    <3>1. /\ does[o].type = "use" /\ does[o].client \in Inner /\ client[does[o].client] = "creating"
          /\ k \notin About(o) /\ UNCHANGED settings
          /\ \A p \in Ops : p # o => step'[p] = step[p]
      BY <2>10, <1>b, AboutKeys, Moves DEF Construct, PlaceInv
    <3>2. \A c \in Inner : Live(c)' => Live(c)
      BY <2>10, <3>1 DEF Construct, Live
    <3> QED BY <3>1, <3>2, <2>1, <2>s, OthersKeepSync
  <2>11. CASE UseAgain(o) \/ Use(o)
    <3>1. does[o].type = "use"
      BY <2>11 DEF UseAgain, Use, PlaceInv
    <3>2. k \notin About(o) /\ UNCHANGED <<settings, client>> /\ \A p \in Ops : p # o => step'[p] = step[p]
      BY <2>11, <3>1, <1>b, Moves DEF UseAgain, Use
    <3> QED BY <3>2, <2>1, <2>s, OthersKeepSync DEF Live
  <2> QED
    BY <1>2, <2>2, <2>3, <2>4, <2>5, <2>6, <2>7, <2>8, <2>9, <2>9a, <2>10, <2>11 DEF RedisStep, Continues
<1>3. CASE BeginUse(o)
  <2>1. /\ does[o].type = "use" /\ does[o].client \in Inner /\ k \notin About(o) /\ UNCHANGED does
        /\ \A p \in Ops : p # o => step'[p] = step[p]
    BY <1>3, <1>b, AboutKeys, Moves DEF BeginUse
  <2>2. CASE ~running
    BY <1>3, <2>1, <2>2, OthersKeepSync DEF BeginUse, Live
  <2>3. CASE running
    <3>1. /\ torn' = torn \cup UNION {About(p) : p \in {q \in Ops : Active(q)}}
          /\ settings' = [settings EXCEPT ![does[o].client] = settings["redis"]]
          /\ client' = [client EXCEPT ![does[o].client] = "creating"]
      BY <1>3, <2>3 DEF BeginUse, ValuesOfRedis
    <3>2. k \notin torn /\ \A p \in Ops : ~Nears(p, k)
      BY <3>1 DEF Nears
    <3>3. \A p \in Ops : ~Nears(p, k)'
      BY <3>2, <2>1 DEF Nears, Active, About, Sets
    <3>4. Agree(k)
      BY <3>2 DEF Sync
    <3>5. Agree(k)'
      BY <3>1, <3>4, <2>1, <1>a DEF Agree, Live, Clients
    <3> QED BY <3>3, <3>5 DEF Sync
  <2> QED BY <2>2, <2>3
<1> QED BY <1>1, <1>2, <1>3

(* Redis.md: "Redis overrides four commands in order to keep all its       *)
(* internal clients in sync": they are, for every setting that no race or  *)
(* failure has torn since a call about it was last alone.                  *)
THEOREM ClientsStayInSync == RedisSpec => []ClientsInSync
<1> DEFINE Synced == QuitInv /\ \A k \in Keys \ torn : Sync(k)
<1>1. RedisInit => Synced
  <2> SUFFICES ASSUME RedisInit PROVE Synced
    OBVIOUS
  <2>1. \A k \in Keys : Sync(k)
    BY DEF RedisInit, ClientsInit, Sync, Nears, Active, Agree, Live, Inner
  <2> QED BY <2>1, QuitInit
<1>2. Synced /\ [RedisNext]_redisVars => Synced'
  <2> SUFFICES ASSUME Synced, [RedisNext]_redisVars PROVE Synced'
    OBVIOUS
  <2>1. QuitInv' BY QuitInvStep
  <2>2. ASSUME NEW k \in Keys \ torn' PROVE Sync(k)'
    <3>1. ASSUME NEW o \in Ops, RedisStep(o) PROVE Sync(k)'
      BY <3>1, <2>2, SyncStep DEF QuitInv
    <3>2. CASE UNCHANGED redisVars
      BY <3>2, <2>2 DEF redisVars, Sync, Nears, Active, About, Sets, Passed, Told, Agree, Live
    <3> QED BY <3>1, <3>2 DEF RedisNext
  <2> QED BY <2>1, <2>2
<1>3. Synced => ClientsInSync
  BY DEF ClientsInSync, Sync, Nears, Agree, Live
<1> QED BY <1>1, <1>2, <1>3, PTL DEF RedisSpec

=============================================================================
