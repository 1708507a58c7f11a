----------------------------- MODULE Lifecycle -----------------------------
(***************************************************************************)
(* The process from boot to exit: run() of cmd/elchi-shield/main.go, the   *)
(* ext_proc Manager and Server, the health server, the watcher goroutine's *)
(* reloads, and what a reload owns: engine sets shared through engineCache *)
(* and the background refreshers their jwks engines start.                 *)
(*                                                                         *)
(* main, the reload, the retirer, every ext_proc server, every stream and  *)
(* every refresher are actors of their own.  A reload is a step per        *)
(* policy, so a signal may arrive, and the shutdown go by, inside one.     *)
(* Pinning, grace and drain are one step here; SnapshotLifecycle has them  *)
(* in detail.  A directory that is empty, unreadable, invalid or unchanged *)
(* ends a reload before it builds anything (ConfigReload), and is left out.*)
(***************************************************************************)
EXTENDS Integers, Sequences, Functions

CONSTANTS Listeners,    \* cfg.listeners(), in order: 1..n
          Streams,      \* ext_proc streams
          Configs,      \* [policies |-> Seq of spec or NoSpec, engines |-> [spec -> Seq of kinds]]
          NoSpec,       \* a policy whose resolved Engines is nil
          Documents,    \* what a key server may answer: Seq of [kid, kty], or Unreachable
          Unreachable,
          MaxReloads    \* bound: reloads that get as far as compiling

ASSUME LifecycleAssumption ==
  /\ 0 \notin Listeners /\ MaxReloads \in Nat
  /\ \A c \in Configs :
       /\ Len(c.policies) \in Nat /\ DOMAIN c.policies = 1..Len(c.policies)
       /\ \A sp \in Range(c.policies) \ {NoSpec} : DOMAIN c.engines[sp] \subseteq Nat \ {0}

Empty == 0                         \* EmptySnapshot
Attempts == 1..MaxReloads          \* a snapshot is named by the attempt that built it
NoBuild == [v |-> Empty]

VARIABLES main,       \* where run() is
          server,     \* per listener: "off", "bound", "draining", "down"
          forced,     \* some server was hard-stopped by grpc.Stop
          health,     \* the health server is listening
          watching,   \* the watcher goroutine: "off", "idle", "reloading"
          signalled,  \* ctx of signal.NotifyContext is done
          deadline,   \* shutdownCtx is done
          attempts,   \* reloads that compiled, the running one included
          build,      \* the Compile in progress, or NoBuild
          active,     \* store.Load()
          config,     \* the config each attempt compiled
          failed,     \* attempts that ended in an error
          retiring,   \* snapshots handed to the retirer
          closed,     \* "open", "drained", "capped" or "shutdown"
          sets,       \* engine sets built so far: <<attempt, spec>>
          running,    \* those whose refresher goroutine runs
          keys,       \* the key ids their jwks engine holds
          stream      \* per stream: the listener it came in on and its snapshot

srvVars == <<server, forced, health>>
snapVars == <<attempts, build, active, config, failed, retiring, closed, sets, running, keys>>
lcvars == <<main, srvVars, watching, signalled, deadline, snapVars, stream>>

Idle == [on |-> 0, snap |-> Empty]
Alive == main # "exited"
Busy(s) == stream[s].on # 0

LCInit ==
  /\ main = "boot"
  /\ server = [l \in Listeners |-> "off"] /\ forced = FALSE /\ health = FALSE
  /\ watching = "off" /\ signalled = FALSE /\ deadline = FALSE
  /\ attempts = 0 /\ build = NoBuild /\ active = Empty
  /\ config = [v \in Attempts |-> NoSpec] /\ failed = {} /\ retiring = {}
  /\ closed = [v \in Attempts |-> "open"]
  /\ sets = {} /\ running = {} /\ keys = <<>>
  /\ stream = [s \in Streams |-> Idle]

-----------------------------------------------------------------------------
(* parseJWKS: other key types are skipped; one bad RSA or EC key, a        *)
(* duplicate kid or no usable key at all makes the document an error (an   *)
(* empty set here).                                                        *)
ParseJWKS(doc) ==
  LET usable == SelectSeq(doc, LAMBDA k : k.kty \in {"RSA", "EC"})
      bad == \E i \in DOMAIN doc : doc[i].kty = "bad"
      dup == \E i, j \in DOMAIN usable : i < j /\ usable[i].kid = usable[j].kid
  IN IF bad \/ dup THEN {} ELSE {usable[i].kid : i \in DOMAIN usable}

(* load: fetch, then parse. *)
LoadKeys(doc) == IF doc = Unreachable THEN {} ELSE ParseJWKS(doc)

(* buildEngines builds in order and stops at the first engine that fails;  *)
(* a jwks engine fails when its first, blocking load does.                 *)
Fails(kind, loaded) == kind = "broken" \/ (kind = "jwks" /\ loaded = {})

Built(engines, loaded) == {i \in DOMAIN engines : \A j \in 1..i : ~Fails(engines[j], loaded)}

(* The initial doReload, before anything listens, or one by the watcher.   *)
StartReload ==
  /\ Alive /\ build = NoBuild /\ attempts < MaxReloads
  /\ \/ main = "boot" /\ attempts = 0 /\ \A l \in Listeners : server[l] = "off"
     \/ watching = "idle"
  /\ \E c \in Configs :
       /\ active # Empty => config[active] # c
       /\ attempts' = attempts + 1
       /\ config' = [config EXCEPT ![attempts + 1] = c]
       /\ build' = [v |-> attempts + 1, next |-> 1]
  /\ watching' = IF watching = "idle" THEN "reloading" ELSE watching
  /\ UNCHANGED <<main, srvVars, signalled, deadline, active, failed, retiring, closed, sets, running, keys, stream>>

(* After doReload main goes on, or the watcher waits for the next change. *)
EndReload ==
  /\ build' = NoBuild
  /\ watching' = IF watching = "reloading" THEN "idle" ELSE watching

(* compilePolicy for the next domain or route: the cached set of its spec, *)
(* no set, or a new one.  An error abandons the compile: what was built    *)
(* before it stays as it is.                                               *)
CompileNext ==
  /\ Alive /\ build # NoBuild
  /\ LET c == config[build.v]
         sp == c.policies[build.next]
         id == <<build.v, sp>>
     IN /\ build.next <= Len(c.policies)
        /\ \/ /\ sp = NoSpec \/ id \in sets
              /\ build' = [build EXCEPT !.next = @ + 1]
              /\ UNCHANGED <<failed, sets, running, keys, watching>>
           \/ /\ sp # NoSpec /\ id \notin sets
              /\ \E doc \in Documents :
                   LET es == c.engines[sp]
                       loaded == LoadKeys(doc)
                       built == Built(es, loaded)
                       refresher == \E i \in built : es[i] = "jwks"
                   IN /\ running' = IF refresher THEN running \cup {id} ELSE running
                      /\ keys' = IF refresher
                                   THEN [x \in DOMAIN keys \cup {id} |-> IF x = id THEN loaded ELSE keys[x]]
                                   ELSE keys
                      /\ IF built = DOMAIN es
                           THEN /\ sets' = sets \cup {id}
                                /\ build' = [build EXCEPT !.next = @ + 1]
                                /\ UNCHANGED <<failed, watching>>
                           ELSE /\ failed' = failed \cup {build.v}
                                /\ EndReload
                                /\ UNCHANGED sets
  /\ UNCHANGED <<main, srvVars, signalled, deadline, attempts, active, config, retiring, closed, stream>>

(* Every policy is compiled: store.Set, then retire what was active. *)
Swap ==
  /\ Alive /\ build # NoBuild /\ build.next > Len(config[build.v].policies)
  /\ active' = build.v
  /\ retiring' = IF active = Empty THEN retiring ELSE retiring \cup {active}
  /\ EndReload
  /\ UNCHANGED <<main, srvVars, signalled, deadline, attempts, config, failed, closed, sets, running, keys, stream>>

-----------------------------------------------------------------------------
(* The engine sets of a snapshot's policies.  Resolver.Close visits every  *)
(* domain's default policy and routes and closes each distinct set once.   *)
SetsOf(v) == {<<v, sp>> : sp \in Range(config[v].policies) \ {NoSpec}}

(* Mutant of SetsClosed: the routes are not visited. *)
DefaultPolicySets(v) == {<<v, sp>> : sp \in {config[v].policies[1]} \ {NoSpec}}

SetsClosed(v) == SetsOf(v)

(* Snapshot.Close; a jwks engine's Close cancels its refresher and leaves  *)
(* its keys readable.                                                      *)
CloseSnapshot(v, how) ==
  /\ closed' = [closed EXCEPT ![v] = IF @ = "open" THEN how ELSE @]
  /\ running' = running \ SetsClosed(v)

(* closeRetired: the streams are gone, or the wait was capped. *)
Retire(v) ==
  /\ Alive /\ v \in retiring
  /\ retiring' = retiring \ {v}
  /\ \/ (\A s \in Streams : stream[s].snap # v) /\ CloseSnapshot(v, "drained")
     \/ (\E s \in Streams : stream[s].snap = v) /\ CloseSnapshot(v, "capped")
  /\ UNCHANGED <<main, srvVars, watching, signalled, deadline, attempts, build, active, config, failed, sets, keys, stream>>

(* refreshLoop: a load that failed, or found nothing, keeps the keys. *)
Refreshed(id, loaded) == IF loaded = {} THEN keys ELSE [keys EXCEPT ![id] = loaded]

Refresh(id) ==
  /\ Alive /\ id \in running
  /\ \E doc \in Documents : keys' = Refreshed(id, LoadKeys(doc))
  /\ UNCHANGED <<main, srvVars, watching, signalled, deadline, attempts, build, active, config, failed,
                 retiring, closed, sets, running, stream>>

-----------------------------------------------------------------------------
(* A stream arrives at a listening server and pins the active snapshot,    *)
(* and later returns and releases it.  grpc.Stop cancels a stream but does *)
(* not wait for its handler.                                               *)
Accept(s) ==
  /\ Alive /\ ~Busy(s)
  /\ \E l \in Listeners : server[l] = "bound" /\ stream' = [stream EXCEPT ![s] = [on |-> l, snap |-> active]]
  /\ UNCHANGED <<main, srvVars, watching, signalled, deadline, snapVars>>

StreamReturns(s) ==
  /\ Alive /\ Busy(s)
  /\ stream' = [stream EXCEPT ![s] = Idle]
  /\ UNCHANGED <<main, srvVars, watching, signalled, deadline, snapVars>>

-----------------------------------------------------------------------------
(* run(), after the initial doReload: Manager.Start binds one listener     *)
(* after the other; when one cannot bind, stopStarted hard-stops the ones  *)
(* before it and run returns the error.                                    *)
Bind ==
  /\ main = "boot" /\ build = NoBuild
  /\ \E l \in Listeners :
       /\ server[l] = "off" /\ \A k \in Listeners : k < l => server[k] = "bound"
       /\ \/ /\ server' = [server EXCEPT ![l] = "bound"]
             /\ UNCHANGED <<main, forced>>
          \/ /\ server' = [k \in Listeners |-> IF k < l THEN "down" ELSE "off"]
             /\ forced' = TRUE
             /\ main' = "returning"
  /\ UNCHANGED <<health, watching, signalled, deadline, snapVars, stream>>

(* Mutant of Started: the health server does not wait for Manager.Start. *)
AnyStarted == build = NoBuild

Started == \A l \in Listeners : server[l] = "bound"

(* The health server's goroutine starts (it only logs when it cannot       *)
(* listen), then the watcher is created; without one, run returns.         *)
StartHTTP ==
  /\ main = "boot" /\ Started
  /\ main' = "http"
  /\ health' \in BOOLEAN
  /\ UNCHANGED <<server, forced, watching, signalled, deadline, snapVars, stream>>

StartWatcher ==
  /\ main = "http"
  /\ \/ main' = "serving" /\ watching' = "idle"
     \/ main' = "returning" /\ UNCHANGED watching
  /\ UNCHANGED <<srvVars, signalled, deadline, snapVars, stream>>

(* SIGINT or SIGTERM; the watcher's Run returns when it sees it. *)
Signal ==
  /\ Alive /\ ~signalled /\ signalled' = TRUE
  /\ UNCHANGED <<main, srvVars, watching, deadline, snapVars, stream>>

WatcherStops ==
  /\ Alive /\ signalled /\ watching = "idle" /\ watching' = "off"
  /\ UNCHANGED <<main, srvVars, signalled, deadline, snapVars, stream>>

(* <-ctx.Done(), and Manager.Shutdown calls every Server.Shutdown: no new  *)
(* streams from here on.                                                   *)
BeginShutdown ==
  /\ main = "serving" /\ signalled
  /\ main' = "drain"
  /\ server' = [l \in Listeners |-> "draining"]
  /\ UNCHANGED <<forced, health, watching, signalled, deadline, snapVars, stream>>

DrainDeadline ==
  /\ main \in {"drain", "flush"} /\ ~deadline /\ deadline' = TRUE
  /\ UNCHANGED <<main, srvVars, watching, signalled, snapVars, stream>>

(* Server.Shutdown: GracefulStop returns once its streams have, or the     *)
(* deadline makes it a hard Stop.                                          *)
ServerDown(l) ==
  /\ Alive /\ server[l] = "draining"
  /\ \/ (\A s \in Streams : stream[s].on # l) /\ UNCHANGED forced
     \/ deadline /\ forced' = TRUE
  /\ server' = [server EXCEPT ![l] = "down"]
  /\ UNCHANGED <<main, health, watching, signalled, deadline, snapVars, stream>>

(* Mutant of Drained: Manager.Shutdown does not wait for its servers. *)
ShutdownStarted == main = "drain"

Drained == main = "drain" /\ \A l \in Listeners : server[l] = "down"

(* The rest of run(): httpSrv.Shutdown, auditor.Flush (both under the      *)
(* deadline), store.Load().Close(), and the deferred auditor.Close().      *)
StopHTTP ==
  /\ Drained
  /\ main' = "flush" /\ health' = FALSE
  /\ UNCHANGED <<server, forced, watching, signalled, deadline, snapVars, stream>>

CloseActive ==
  /\ main = "flush"
  /\ main' = "returning"
  /\ IF active = Empty THEN UNCHANGED <<closed, running>> ELSE CloseSnapshot(active, "shutdown")
  /\ UNCHANGED <<srvVars, watching, signalled, deadline, attempts, build, active, config, failed, retiring,
                 sets, keys, stream>>

(* Mutant of Exit: run waits for the goroutines it started. *)
ExitAfterGoroutines ==
  /\ main = "returning" /\ watching = "off" /\ \A s \in Streams : ~Busy(s)
  /\ main' = "exited"
  /\ UNCHANGED <<srvVars, watching, signalled, deadline, snapVars, stream>>

Exit ==
  /\ main = "returning"
  /\ main' = "exited"
  /\ UNCHANGED <<srvVars, watching, signalled, deadline, snapVars, stream>>

MainStep == Bind \/ StartHTTP \/ StartWatcher \/ BeginShutdown \/ StopHTTP \/ CloseActive \/ Exit
ReloadStep == CompileNext \/ Swap

LCNext ==
  \/ MainStep \/ StartReload \/ ReloadStep \/ Signal \/ WatcherStops \/ DrainDeadline
  \/ \E v \in Attempts : Retire(v)
  \/ \E id \in running : Refresh(id)
  \/ \E s \in Streams : Accept(s) \/ StreamReturns(s)
  \/ \E l \in Listeners : ServerDown(l)

(* Fairness: run() and a compile in progress go on (a key fetch has its    *)
(* timeout), the shutdown timer fires, and a Server.Shutdown that may      *)
(* return does.  Nothing is asked of the streams or of the watcher.        *)
LCFairness ==
  /\ WF_lcvars(MainStep) /\ WF_lcvars(ReloadStep) /\ WF_lcvars(DrainDeadline)
  /\ \A l \in Listeners : WF_lcvars(ServerDown(l))

LCSpec == LCInit /\ [][LCNext]_lcvars /\ LCFairness

-----------------------------------------------------------------------------
(* While a stream is served, the jwks engines of the snapshot it pinned    *)
(* keep refreshing and hold keys: nothing closes a snapshot under a stream *)
(* except the retirer's cap and, at shutdown, a drain that ran out of time *)
(* (main.go closes the active snapshot because "streams are drained").     *)
EnginesServeStreams ==
  Alive => \A s \in Streams :
    LET v == stream[s].snap
        excused == closed[v] = "capped" \/ (closed[v] = "shutdown" /\ forced)
    IN Busy(s) /\ v # Empty =>
         \A id \in SetsOf(v) \cap DOMAIN keys : keys[id] # {} /\ (id \in running \/ excused)

(* Every refresher that runs belongs to a snapshot still open or to the    *)
(* compile in progress, unless its compile was abandoned half-way: closing *)
(* a snapshot reaches every engine set its policies share.                 *)
Owned(id) == id[1] = build.v \/ (closed[id[1]] = "open" /\ id[1] \in retiring \cup {active})

RefreshersOwned == Alive => \A id \in running : Owned(id) \/ id[1] \in failed

(* jwks.go: "The refresher goroutine is canceled by Close (called once per *)
(* snapshot retirement), so it cannot leak": no refresher outlives its     *)
(* snapshot, whatever became of the reload that started it.                *)
NoRefresherLeaks == Alive => \A id \in running : Owned(id)

(* /readyz answers 200 (a health server that listens, a config that is not *)
(* empty) only once every ext_proc listener is bound, or on the way out.   *)
ReadyIsServing ==
  Alive /\ health /\ active # Empty =>
    (\A l \in Listeners : server[l] = "bound") \/ main \in {"drain", "flush", "returning"}

(* After a signal the process exits: no stream, reload or watcher can hold *)
(* the shutdown up past its deadline.                                      *)
Exits == signalled ~> main = "exited"

=============================================================================
