---------------------------- MODULE RelaySessions ----------------------------
(***************************************************************************)
(* The relay sessions of the multiplex bind (wgnet/bind.go) and the TLS    *)
(* fingerprints they are pinned to (main.go, replacePeers). Senders, the   *)
(* goroutine of each session, the network map subscription and             *)
(* wireguard-go's BindUpdate run concurrently over two locks: relayMu of   *)
(* the bind and mu of the provider.                                        *)
(*                                                                         *)
(* A relay presents a certificate, a number that grows with each restart;  *)
(* a session succeeds against the certificate it is pinned to, or unpinned *)
(* against none, as the relays are self-signed. Session ids stand for      *)
(* relayHandle pointers and are used again once nothing refers to them.    *)
(***************************************************************************)
EXTENDS Naturals, FiniteSets

CONSTANTS URLs,        \* relay URLs
          MaxSessions, \* bound: session goroutines at a time
          MaxRestarts, \* bound: relay restarts
          MaxOmits,    \* bound: network maps that leave a relay out
          MaxBreaks,   \* bound: sessions the network breaks
          MaxReopens,  \* bound: Close/Open cycles of the bind
          RedialBase,  \* redialBase, redialMax and healthyAfter, in ticks
          RedialMax,
          HealthyAfter

ASSUME BoundAssumption ==
  /\ URLs # {} /\ MaxSessions \in Nat \ {0} /\ MaxRestarts \in Nat
  /\ MaxOmits \in Nat /\ MaxBreaks \in Nat /\ MaxReopens \in Nat
ASSUME BackoffAssumption ==
  /\ RedialBase \in Nat \ {0} /\ RedialMax \in Nat /\ RedialBase <= RedialMax
  /\ HealthyAfter \in Nat

Sessions == 1..MaxSessions
None     == 0                    \* no handle, no session
NoPin    == 0                    \* fingerprint ""
Certs    == 1..(1 + MaxRestarts)

(* The number of failures after which the delay stays at its maximum. *)
FailCap == RedialMax + 1

VARIABLES
  relays,    \* URL -> the session in the map, or None
  fails,     \* URL -> relayRetryState.failures, 0 without an entry
  wait,      \* URL -> ticks until nextAttempt
  closed,    \* "open", "closing" (flag set, root cancelled), "closed"
  dialing,   \* the URL whose ensureRelay holds relayMu, and the pin it read
  run,       \* session -> where its goroutine is
  url,       \* session -> its URL
  pin,       \* session -> the fingerprint it was built with
  cancelled, \* sessions whose context is cancelled
  age,       \* session -> ticks since it started, up to HealthyAfter
  pins,      \* provider.relayTLSPin
  rp,        \* replacePeers: "idle", "swapping" (holds p.mu), "dropping"
  repinned,  \* the URLs it has still to drop
  cert,      \* URL -> the certificate the relay presents
  omitted,   \* URLs some map left out (history)
  omits, breaks, reopens

vars == <<relays, fails, wait, closed, dialing, run, url, pin,
          cancelled, age, pins, rp, repinned, cert, omitted, omits, breaks,
          reopens>>

retry    == <<fails, wait>>
sessions == <<run, url, pin, cancelled, age>>
provider == <<pins, rp, repinned, omitted, omits>>
env      == <<breaks, reopens>>

Idle == [at |-> "free"]
Live == {s \in Sessions : run[s] # "free"}

TypeOK ==
  /\ relays \in [URLs -> Sessions \cup {None}]
  /\ fails \in [URLs -> 0..FailCap] /\ wait \in [URLs -> 0..((6 * RedialMax) \div 5)]
  /\ closed \in {"open", "closing", "closed"}
  /\ \/ dialing = Idle
     \/ dialing \in [at : {"factory", "store"}, url : URLs, pin : Certs \cup {NoPin}]
  /\ run \in [Sessions -> {"free", "handshake", "pump", "exited", "failed", "local"}]
  /\ url \in [Sessions -> URLs] /\ pin \in [Sessions -> Certs \cup {NoPin}]
  /\ cancelled \subseteq Sessions /\ age \in [Sessions -> 0..HealthyAfter]
  /\ pins \in [URLs -> Certs \cup {NoPin}]
  /\ rp \in {"idle", "swapping", "dropping"} /\ repinned \subseteq URLs
  /\ cert \in [URLs -> Certs] /\ omitted \subseteq URLs
  /\ omits \in 0..MaxOmits /\ breaks \in 0..MaxBreaks /\ reopens \in 0..MaxReopens

(* A bind that is open, before the first network map and the first send. *)
Init ==
  /\ relays = [u \in URLs |-> None]
  /\ fails = [u \in URLs |-> 0] /\ wait = [u \in URLs |-> 0]
  /\ closed = "open" /\ dialing = Idle
  /\ run = [s \in Sessions |-> "free"]
  /\ url = [s \in Sessions |-> CHOOSE u \in URLs : TRUE]
  /\ pin = [s \in Sessions |-> NoPin]
  /\ cancelled = {} /\ age = [s \in Sessions |-> 0]
  /\ pins = [u \in URLs |-> NoPin]
  /\ rp = "idle" /\ repinned = {}
  /\ cert = [u \in URLs |-> 1] /\ omitted = {}
  /\ omits = 0 /\ breaks = 0 /\ reopens = 0

-----------------------------------------------------------------------------
(* ensureRelay, run by sendRelay, SendDiscoViaRelay and parseRelayEndpoint. *)
(* relayMu is held from Ensure to Store.                                    *)

RelayMuFree == dialing = Idle

(* A live handle, a backoff or a closed bind end the call at once. *)
Ensure(u) ==
  /\ RelayMuFree /\ closed = "open"
  /\ relays[u] = None /\ wait[u] = 0
  /\ \E s \in Sessions : run[s] = "free"
  /\ dialing' = [at |-> "factory", url |-> u, pin |-> NoPin]
  /\ UNCHANGED <<relays, retry, closed, sessions, provider, cert, env>>

(* The factory reads the fingerprint under p.mu. *)
Factory ==
  /\ dialing.at = "factory" /\ rp # "swapping"
  /\ dialing' = [dialing EXCEPT !.at = "store", !.pin = pins[dialing.url]]
  /\ UNCHANGED <<relays, retry, closed, sessions, provider, cert, env>>

(* The handle is stored and its goroutine started; a root context that is  *)
(* cancelled by now cancels it too.                                        *)
Store ==
  /\ dialing.at = "store"
  /\ LET s == CHOOSE f \in Sessions : run[f] = "free"
         u == dialing.url
     IN
     /\ relays' = [relays EXCEPT ![u] = s]
     /\ run' = [run EXCEPT ![s] = "handshake"]
     /\ url' = [url EXCEPT ![s] = u] /\ pin' = [pin EXCEPT ![s] = dialing.pin]
     /\ age' = [age EXCEPT ![s] = 0]
     /\ cancelled' = IF closed = "open" THEN cancelled ELSE cancelled \cup {s}
  /\ dialing' = Idle
  /\ UNCHANGED <<retry, closed, provider, cert, env>>

-----------------------------------------------------------------------------
(* The goroutine of a session: cli.Run, then evictRelay. *)

Go(s, where) == run' = [run EXCEPT ![s] = where]

(* Dial and handshake succeed against the certificate that was pinned. *)
Handshake(s) ==
  /\ run[s] = "handshake" /\ s \notin cancelled /\ pin[s] = cert[url[s]]
  /\ Go(s, "pump")
  /\ UNCHANGED <<relays, retry, closed, dialing, url, pin, cancelled, age,
                 provider, cert, env>>

(* Run returns: a wrong certificate, a relay that went away under the      *)
(* session, or a cancelled context.                                        *)
RunReturns(s) ==
  /\ run[s] \in {"handshake", "pump"}
  /\ pin[s] # cert[url[s]] \/ s \in cancelled
  /\ Go(s, "exited")
  /\ UNCHANGED <<relays, retry, closed, dialing, url, pin, cancelled, age,
                 provider, cert, env>>

(* The same for a reason of the network. *)
RunBreaks(s) ==
  /\ run[s] \in {"handshake", "pump"}
  /\ breaks < MaxBreaks /\ breaks' = breaks + 1
  /\ Go(s, "exited")
  /\ UNCHANGED <<relays, retry, closed, dialing, url, pin, cancelled, age,
                 provider, cert, reopens>>

(* ctx.Err() == nil, evaluated before evictRelay takes relayMu. *)
Judge(s) ==
  /\ run[s] = "exited"
  /\ Go(s, IF s \in cancelled THEN "local" ELSE "failed")
  /\ UNCHANGED <<relays, retry, closed, dialing, url, pin, cancelled, age,
                 provider, cert, env>>

AtMost(a, b) == IF a <= b THEN a ELSE b

(* nextRelayBackoff: capped doubling with a jitter of a fifth. *)
Delay(n) == LET doubled == RedialBase * 2^(n - 1)
            IN IF doubled \in 0..RedialMax THEN doubled ELSE RedialMax
Jittered(d) == {x \in 0..(2 * d) : 5 * x >= 4 * d /\ 5 * x <= 6 * d}

(* The goroutine ends and its handle is no longer referred to. *)
Gone(s) ==
  /\ Go(s, "free") /\ cancelled' = cancelled \ {s}
  /\ pin' = [pin EXCEPT ![s] = NoPin] /\ age' = [age EXCEPT ![s] = 0]
  /\ UNCHANGED url

(* A session that ended on its own arms the backoff of its URL; one that   *)
(* was up for HealthyAfter starts a new streak.                            *)
ArmBackoff(s) ==
  \/ run[s] = "local" /\ UNCHANGED retry
  \/ /\ run[s] = "failed"
     /\ LET n == IF age[s] >= HealthyAfter THEN 1 ELSE AtMost(fails[url[s]] + 1, FailCap)
        IN /\ fails' = [fails EXCEPT ![url[s]] = n]
           /\ \E d \in Jittered(Delay(n)) : wait' = [wait EXCEPT ![url[s]] = d]

(* Mutant: a failed session stays in the map. *)
EvictNothing(s) ==
  /\ run[s] \in {"failed", "local"} /\ RelayMuFree
  /\ ArmBackoff(s) /\ Gone(s)
  /\ UNCHANGED <<relays, closed, dialing, provider, cert, env>>

(* Mutant: the map entry goes whichever session it holds. *)
EvictBlind(s) ==
  /\ run[s] \in {"failed", "local"} /\ RelayMuFree
  /\ relays' = [relays EXCEPT ![url[s]] = None]
  /\ ArmBackoff(s) /\ Gone(s)
  /\ UNCHANGED <<closed, dialing, provider, cert, env>>

(* evictRelay: out of the map, if it is still there. *)
Evict(s) ==
  /\ run[s] \in {"failed", "local"} /\ RelayMuFree
  /\ relays' = IF relays[url[s]] = s THEN [relays EXCEPT ![url[s]] = None] ELSE relays
  /\ ArmBackoff(s) /\ Gone(s)
  /\ UNCHANGED <<closed, dialing, provider, cert, env>>

Session(s) == Handshake(s) \/ RunReturns(s) \/ Judge(s) \/ Evict(s)

-----------------------------------------------------------------------------
(* The network map: replacePeers. *)

(* A map that names the certificates the relays have, or leaves some out.  *)
(* The pins are replaced under p.mu, and the URLs whose fingerprint        *)
(* differs from the one in the previous map are collected.                 *)
ReplacePins(out) ==
  /\ rp = "idle" /\ rp' = "swapping"
  /\ out = {} \/ omits < MaxOmits
  /\ omits' = IF out = {} THEN omits ELSE omits + 1
  /\ omitted' = omitted \cup {u \in out : pins[u] # NoPin}
  /\ pins' = [u \in URLs |-> IF u \in out THEN NoPin ELSE cert[u]]
  /\ pins' # pins
  /\ repinned' = {u \in URLs : NoPin \notin {pins[u], pins'[u]} /\ pins[u] # pins'[u]}
  /\ UNCHANGED <<relays, retry, closed, dialing, sessions, cert, env>>

(* The sessions of the URLs in us are cancelled and forgotten, and their   *)
(* backoff.                                                                *)
Forget(us) ==
  /\ cancelled' = cancelled \cup ({relays[u] : u \in us} \ {None})
  /\ relays' = [u \in URLs |-> IF u \in us THEN None ELSE relays[u]]
  /\ fails' = [u \in URLs |-> IF u \in us THEN 0 ELSE fails[u]]
  /\ wait' = [u \in URLs |-> IF u \in us THEN 0 ELSE wait[u]]

UnlockProvider ==
  /\ rp = "swapping" /\ rp' = "dropping"
  /\ UNCHANGED <<relays, retry, closed, dialing, sessions, pins, repinned,
                 omitted, omits, cert, env>>

(* Mutant: only the backoff is cleared. *)
DropBackoff(u) ==
  /\ rp = "dropping" /\ u \in repinned /\ RelayMuFree
  /\ repinned' = repinned \ {u}
  /\ fails' = [fails EXCEPT ![u] = 0] /\ wait' = [wait EXCEPT ![u] = 0]
  /\ UNCHANGED <<relays, closed, dialing, sessions, pins, rp, omitted, omits,
                 cert, env>>

(* DropRelay, for each of them in turn. *)
DropRelay(u) ==
  /\ rp = "dropping" /\ u \in repinned /\ RelayMuFree
  /\ repinned' = repinned \ {u}
  /\ Forget({u})
  /\ UNCHANGED <<closed, dialing, run, url, pin, age, pins, rp, omitted, omits,
                 cert, env>>

ReplaceDone ==
  /\ rp = "dropping" /\ repinned = {} /\ rp' = "idle"
  /\ UNCHANGED <<relays, retry, closed, dialing, sessions, pins, repinned,
                 omitted, omits, cert, env>>

Replace == UnlockProvider \/ ReplaceDone \/ \E u \in URLs : DropRelay(u)

-----------------------------------------------------------------------------
(* BindUpdate: Close, then Open. *)

(* closed.Swap and rootCancel, before relayMu. *)
CloseStart ==
  /\ closed = "open" /\ reopens < MaxReopens
  /\ closed' = "closing" /\ reopens' = reopens + 1
  /\ cancelled' = cancelled \cup Live
  /\ UNCHANGED <<relays, retry, dialing, run, url, pin, age, provider, cert,
                 breaks>>

CloseSessions ==
  /\ closed = "closing" /\ RelayMuFree
  /\ closed' = "closed"
  /\ cancelled' = cancelled \cup {relays[u] : u \in {v \in URLs : relays[v] # None}}
  /\ relays' = [u \in URLs |-> None]
  /\ UNCHANGED <<retry, dialing, run, url, pin, age, provider, cert, env>>

(* Open: a new root, no backoff. *)
Open ==
  /\ closed = "closed" /\ RelayMuFree
  /\ closed' = "open"
  /\ fails' = [u \in URLs |-> 0] /\ wait' = [u \in URLs |-> 0]
  /\ UNCHANGED <<relays, dialing, sessions, provider, cert, env>>

-----------------------------------------------------------------------------
(* A relay restarts: its sessions end and it presents a new certificate. *)
RelayRestarts(u) ==
  /\ cert[u] <= MaxRestarts
  /\ cert' = [cert EXCEPT ![u] = @ + 1]
  /\ UNCHANGED <<relays, retry, closed, dialing, sessions, provider, env>>

Tick ==
  /\ \E u \in URLs : wait[u] > 0 \/ \E s \in Live : age[s] < HealthyAfter
  /\ wait' = [u \in URLs |-> IF wait[u] > 0 THEN wait[u] - 1 ELSE 0]
  /\ age' = [s \in Sessions |-> IF s \in Live THEN AtMost(age[s] + 1, HealthyAfter) ELSE age[s]]
  /\ UNCHANGED <<relays, fails, closed, dialing, run, url, pin,
                 cancelled, provider, cert, env>>

-----------------------------------------------------------------------------
Next ==
  \/ \E u \in URLs : Ensure(u) \/ RelayRestarts(u)
  \/ Factory \/ Store
  \/ \E s \in Sessions : Session(s) \/ RunBreaks(s)
  \/ \E out \in SUBSET URLs : ReplacePins(out)
  \/ Replace
  \/ CloseStart \/ CloseSessions \/ Open
  \/ Tick

Spec == Init /\ [][Next]_vars

(* Senders keep sending (WireGuard retransmits, disco probes every pass),  *)
(* session goroutines and replacePeers run, BindUpdate opens what it       *)
(* closed, time passes, and the control plane sends a complete map         *)
(* whenever the last one it sent is out of date. With one relay nobody     *)
(* starves at relayMu under weak fairness; with more it takes the fairness *)
(* of sync.Mutex.                                                          *)
Fairness ==
  /\ \A u \in URLs : WF_vars(Ensure(u))
  /\ WF_vars(Factory) /\ WF_vars(Store)
  /\ \A s \in Sessions : WF_vars(Session(s))
  /\ WF_vars(ReplacePins({})) /\ WF_vars(Replace)
  /\ WF_vars(CloseSessions) /\ WF_vars(Open) /\ WF_vars(Tick)

FairSpec == Spec /\ Fairness

-----------------------------------------------------------------------------
(* Properties *)

(* A URL has at most one session that is not cancelled, and the map knows  *)
(* it: whatever the order of failures, evictions, drops and re-dials, no   *)
(* goroutine keeps a connection that nothing can close (bind.go:650).      *)
OneSession ==
  /\ TypeOK
  /\ \A s \in Live \ cancelled : relays[url[s]] = s

(* Once replacePeers has returned, no session is kept that is pinned to    *)
(* another fingerprint than the current map's (main.go:3358), provided no  *)
(* map left the URL out: then the change goes unnoticed.                   *)
NoStalePin ==
  rp = "idle" => \A u \in URLs \ omitted :
    relays[u] # None => pin[relays[u]] \in {pins[u], NoPin}

Up(u) == relays[u] \in Live \ cancelled /\ run[relays[u]] = "pump"

(* A relay that answers again is reached again: no dead client is kept for *)
(* its URL (bind.go:634), no lock order stops the map or the senders.      *)
Reconnects == <>[](\A u \in URLs : Up(u))
=============================================================================
