--------------------------- MODULE OnboardingRun ---------------------------
(* The onboarding service of `nexus configure`                             *)
(* (configuration/onboarding.go) and the fixed proof it runs for every     *)
(* operation (configuration/step8_service.go, ssh_runtime.go).             *)
(*                                                                         *)
(* A password captured at the terminal becomes a lease; StartCaptured      *)
(* consumes the lease and starts a worker, which inspects the host key,    *)
(* compares the identity with a saved profile, proves the credential over  *)
(* WSS or over SSH, and commits the profile.  Revoke may come at any time. *)
(* OnboardingCommit models the inside of the commit; here it is one step   *)
(* with that module's three outcomes.                                      *)
EXTENDS Naturals

CONSTANTS
    Name,       \* profile names; integers, the order the store lists them in
    Host,       \* the identities a profile may be pinned to
    NoHost,     \* no such profile in the store
    MaxOps      \* bound: passwords captured in a run of the program

ASSUME RunAssumption == Name \subseteq Nat /\ NoHost \notin Host /\ MaxOps \in Nat

Op == 1 .. MaxOps

VARIABLES
    lease,      \* [op, fresh]: the one unconsumed captured password
    issued,     \* OnboardingService.next: the last operation identity
    calls,      \* OnboardingService.calls, and where each worker is
    profiles    \* the profile store: the host each name is pinned to

runVars == <<lease, issued, calls, profiles>>

NoLease == [op |-> 0, fresh |-> FALSE]

Idle ==
    [pc |-> "idle", cancelled |-> FALSE, name |-> 0, host |-> NoHost,
     via |-> "none", ticket |-> FALSE, client |-> "none", proof |-> FALSE,
     cleanup |-> FALSE, result |-> "none"]

RunInit ==
    /\ lease = NoLease
    /\ issued = 0
    /\ calls = [o \in Op |-> Idle]
    /\ profiles \in [Name -> Host \union {NoHost}]

-----------------------------------------------------------------------------
(* The service's operations, called by the terminal program.               *)

(* Capture: earlier leases are wiped, a new identity owns the new one.     *)
Captured(o) ==
    /\ o = issued + 1
    /\ issued' = o
    /\ lease' = [op |-> o, fresh |-> TRUE]

(* Two minutes pass.  Only StartCaptured looks at the time.                *)
LeaseExpires ==
    /\ lease.fresh
    /\ lease' = [lease EXCEPT !.fresh = FALSE]
    /\ UNCHANGED <<issued, calls, profiles>>

(* StartCaptured: the lease is consumed, or dropped when it has expired.   *)
Startable(o) == lease.op = o /\ lease.fresh

LeaseAfter(o) == IF lease.op = o THEN NoLease ELSE lease

Started(o, n, h) ==
    [calls EXCEPT ![o] = [Idle EXCEPT !.pc = "inspect", !.name = n, !.host = h]]

(* Cancel (and Revoke): the worker's context and the lease, if any.        *)
RunRevoked(o) ==
    /\ lease' = LeaseAfter(o)
    /\ calls' = [p \in Op |-> IF p = o /\ calls[p].pc \notin {"idle", "done"}
                              THEN [calls[p] EXCEPT !.cancelled = TRUE]
                              ELSE calls[p]]

-----------------------------------------------------------------------------
(* The worker, one action per call that may wait, fail or be cancelled.    *)

At(o, pc) == calls[o].pc = pc

(* run returns Cancelled rather than a failure once the context is done.   *)
Outcome(o, failed) == IF calls[o].cancelled THEN "cancelled" ELSE failed

(* What is kept of a worker that has returned.                             *)
Returned(client, result) ==
    [Idle EXCEPT !.pc = "done", !.client = client, !.result = result]

Ends(o, result) ==
    calls' = [calls EXCEPT ![o] = Returned(calls[o].client, result)]

Goes(o, pc) == calls' = [calls EXCEPT ![o].pc = pc]

WorkerOnly == UNCHANGED <<lease, issued, profiles>>

(* The host key is observed, and a saved profile must have that identity.  *)
Identified(o) == profiles[calls[o].name] \in {NoHost, calls[o].host}

Inspect(o) ==
    /\ At(o, "inspect")
    /\ \/ \E result \in {"failed", Outcome(o, "failed")} : Ends(o, result)
       \/ ~calls[o].cancelled /\ Identified(o) /\ Goes(o, "observe")
    /\ WorkerOnly

(* What asking the managed daemon for its version, without a credential,   *)
(* may decide; a context that is done decides it.                          *)
Observations(o) == IF calls[o].cancelled THEN {"terminal"} ELSE {"terminal", "ssh", "wss"}

(* runWSS: the credential and Open; the session stays open until Close.    *)
OpenWSS(o) ==
    calls' = [calls EXCEPT ![o].pc = "prove", ![o].via = "wss", ![o].client = "open"]

(* offerSSH: a ticket for this request, whose holder may fall back to SSH. *)
OfferSSH(o) ==
    calls' = [calls EXCEPT ![o].pc = "gate", ![o].via = "ssh", ![o].ticket = TRUE]

(* Step8Service.Run: the old proof marker is removed, and the daemon's     *)
(* answer chooses the transport, or ends the proof.                        *)
Observe(o) ==
    /\ At(o, "observe")
    /\ \/ Ends(o, Outcome(o, "failed"))
       \/ "wss" \in Observations(o) /\ OpenWSS(o)
       \/ "ssh" \in Observations(o) /\ OfferSSH(o)
    /\ WorkerOnly

(* consume: a ticket admits one fallback.                                  *)
Redeemed(o) == [calls[o] EXCEPT !.ticket = FALSE]

(* RunSSH up to the dialled host: after the ticket come the policy, the    *)
(* host key, which is observed once more, the credential and the artifact. *)
OpenSSH(o) ==
    /\ At(o, "gate")
    /\ \/ Ends(o, Outcome(o, "failed"))
       \/ /\ ~calls[o].cancelled /\ calls[o].ticket
          /\ calls' = [calls EXCEPT ![o] = [Redeemed(o) EXCEPT !.pc = "prepare", !.client = "open"]]
    /\ WorkerOnly

(* Mutant: a runtime that cannot be prepared keeps its connection. *)
PrepareKeeping(o) ==
    /\ At(o, "prepare")
    /\ \/ Ends(o, Outcome(o, "failed"))
       \/ /\ calls[o].client = "open"
          /\ calls' = [calls EXCEPT ![o].pc = "prove", ![o].client = "doomed"]
    /\ WorkerOnly

(* The rest of Open: Java and the remote artifact.  A failure closes the   *)
(* client.  Success returns it while Open's deferred cancel ends the       *)
(* context it was dialled with, so Dial's own goroutine will close it.     *)
PrepareHost(o) ==
    /\ At(o, "prepare")
    /\ \/ calls' = [calls EXCEPT ![o] = Returned("closed", Outcome(o, "failed"))]
       \/ /\ calls[o].client = "open"
          /\ calls' = [calls EXCEPT ![o].pc = "prove", ![o].client = "doomed"]
    /\ WorkerOnly

(* Dial's goroutine: the context is done, the client is closed.            *)
DialContextEnds(o) ==
    /\ calls[o].client = "doomed" \/ (calls[o].client = "open" /\ calls[o].cancelled
                                        /\ calls[o].via = "ssh")
    /\ calls' = [calls EXCEPT ![o].client = "closed"]
    /\ WorkerOnly

(* The one fixed proof.  It cannot succeed on a closed connection.         *)
Prove(o) ==
    /\ At(o, "prove")
    /\ \E ok \in BOOLEAN :
          /\ ok => calls[o].client # "closed" /\ ~calls[o].cancelled
          /\ calls' = [calls EXCEPT ![o].pc = "close", ![o].proof = ok]
    /\ WorkerOnly

(* Mutant: a proof counts although its connection was not closed. *)
SuccessfulLenient(c) == c.proof

(* successfulOnboardingProof                                               *)
Successful(c) == c.proof /\ c.cleanup

(* The session or the runtime is closed; closing a closed client reports   *)
(* an error, and any error leaves Cleanup false.  Then the marker is       *)
(* written and the first contact with this host key audited; a failure of  *)
(* either fails the operation.                                             *)
Close(o) ==
    LET closed(clean) == [calls[o] EXCEPT !.client = "closed", !.cleanup = clean]
    IN
    /\ At(o, "close")
    /\ \/ calls' = [calls EXCEPT ![o] = Returned("closed", Outcome(o, "failed"))]
       \/ /\ ~calls[o].cancelled
          /\ \E clean \in BOOLEAN :
                /\ clean => calls[o].client # "closed"
                /\ Successful(closed(clean))
                /\ calls' = [calls EXCEPT ![o] = [closed(clean) EXCEPT !.pc = "commit"]]
    /\ WorkerOnly

(* Commit, under the store's lock: saved, failed with everything undone,   *)
(* or failed with something left.  Whether it replaces a profile is        *)
(* decided inside, not by what Existing saw.  A cancelled context fails it.*)
CommitRun(o) ==
    LET c == calls[o]
        saved == [profiles EXCEPT ![c.name] = c.host]
    IN
    /\ At(o, "commit")
    /\ \/ ~c.cancelled /\ Ends(o, "saved") /\ profiles' = saved
       \/ Ends(o, Outcome(o, "failed")) /\ UNCHANGED profiles
       \/ Ends(o, Outcome(o, "cleanup")) /\ profiles' \in {profiles, saved}
    /\ UNCHANGED <<lease, issued>>

Work(o) ==
    \/ Inspect(o) \/ Observe(o) \/ OpenSSH(o) \/ PrepareHost(o) \/ DialContextEnds(o)
    \/ Prove(o) \/ Close(o) \/ CommitRun(o)

RunNext == LeaseExpires \/ \E o \in Op : Work(o)
=============================================================================
