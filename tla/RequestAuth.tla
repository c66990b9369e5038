----------------------------- MODULE RequestAuth -----------------------------
(***************************************************************************)
(* authenticate of the Bridge server (internal/bridge/server.go): a signed *)
(* request carries a timestamp in whole seconds and a nonce; VerifyRequest *)
(* (internal/bridgeprotocol/auth.go) accepts it inside the window, then    *)
(* Journal.AcceptNonce remembers the nonce and prunes old ones.  The two   *)
(* read the clock separately, requests run concurrently, and the network   *)
(* may deliver a request again at any time.  Time counts fractions of a    *)
(* second.                                                                 *)
(***************************************************************************)
EXTENDS Integers, FiniteSets

CONSTANTS
    Nonces,         \* one request per nonce: the client draws them fresh
    Fractions,      \* fractions in a second
    Window,         \* authWindow, in seconds
    MaxStall,       \* fractions between VerifyRequest and AcceptNonce
    MaxTime         \* bound: fractions of time

ASSUME AuthAssumption ==
    /\ Fractions \in Nat \ {0} /\ Window \in Nat \ {0}
    /\ MaxStall \in Nat /\ MaxTime \in Nat

\* The two calls follow each other in the handler, in less than a second.
ASSUME StallAssumption == MaxStall < Fractions

VARIABLES
    clock,          \* s.now()
    signed,         \* nonce -> timestamp of its request, or -1
    seen,           \* bucketNonces: nonce -> second it was seen, or -1
    verified,       \* deliveries between the two calls: [nonce, at]
    served          \* nonce -> deliveries that reached a handler

authVars == <<clock, signed, seen, verified, served>>

\* time.Time.Unix of an instant.
Unix(t) == t \div Fractions

AuthInit ==
    /\ clock = 0
    /\ signed = [n \in Nonces |-> -1] /\ seen = [n \in Nonces |-> -1]
    /\ verified = {} /\ served = [n \in Nonces |-> 0]

\* SignRequest: the client's clock may be off by anything.
SignRequest(n, ts) ==
    /\ signed[n] = -1
    /\ signed' = [signed EXCEPT ![n] = ts]
    /\ UNCHANGED <<clock, seen, verified, served>>

\* VerifyRequest: the timestamp is at most Window away from the clock.
InWindow(ts, t) == t - ts * Fractions <= Window * Fractions
                   /\ ts * Fractions - t <= Window * Fractions
VerifyRequest(n) ==
    /\ signed[n] # -1 /\ InWindow(signed[n], clock)
    /\ verified' = verified \cup {[nonce |-> n, at |-> clock]}
    /\ UNCHANGED <<clock, signed, seen, served>>

\* Mutant: nonces are kept for one window.
PrunedEarly(m, t) == m # -1 /\ m < Unix(t - Window * Fractions)

\* AcceptNonce: refuse a known nonce, else prune those seen before the
\* cutoff and remember this one.
Pruned(m, t) == m # -1 /\ m < Unix(t - 2 * Window * Fractions)
AcceptNonce(d) ==
    /\ verified' = verified \ {d}
    /\ IF seen[d.nonce] # -1 THEN UNCHANGED <<seen, served>>
       ELSE /\ seen' = [n \in Nonces |->
                          IF n = d.nonce THEN Unix(clock)
                          ELSE IF Pruned(seen[n], clock) THEN -1 ELSE seen[n]]
            /\ served' = [served EXCEPT ![d.nonce] = @ + 1]
    /\ UNCHANGED <<clock, signed>>

\* Time passes, unless a request would stall for too long.
Pass ==
    /\ clock < MaxTime
    /\ \A d \in verified : clock < d.at + MaxStall
    /\ clock' = clock + 1
    /\ UNCHANGED <<signed, seen, verified, served>>

AuthNext ==
    \/ \E n \in Nonces, ts \in 0..(MaxTime \div Fractions) : SignRequest(n, ts)
    \/ \E n \in Nonces : VerifyRequest(n)
    \/ \E d \in verified : AcceptNonce(d)
    \/ Pass

AuthSpec == AuthInit /\ [][AuthNext]_authVars
-----------------------------------------------------------------------------
\* The state variables keep their types; nothing pending is too old and no
\* nonce was seen in the future.
AuthTypeOK ==
    /\ clock \in 0..MaxTime
    /\ signed \in [Nonces -> -1..MaxTime] /\ seen \in [Nonces -> -1..MaxTime]
    /\ verified \subseteq [nonce : Nonces, at : 0..MaxTime]
    /\ \A d \in verified : clock - d.at \in 0..MaxStall
    /\ \A n \in Nonces : seen[n] * Fractions <= clock
    /\ served \in [Nonces -> Nat]

\* A request reaches a handler at most once, however often it is delivered
\* and whichever request prunes the nonces meanwhile: by the time its nonce is
\* forgotten its timestamp has left the window for every delivery that is
\* still between the two calls.  Pruning in whole seconds leaves room for a
\* stall shorter than one second.
ServedOnce == \A n \in Nonces : served[n] <= 1
=============================================================================
