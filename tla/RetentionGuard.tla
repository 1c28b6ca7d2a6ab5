-------------------------- MODULE RetentionGuard --------------------------
(***************************************************************************)
(* check_retention of storage.rs beside the mutations of holds.  The guard *)
(* runs two statements without a transaction: a SELECT over the committed  *)
(* holds, then the INSERT of its evidence.  A mutation shows to it only    *)
(* when it commits, so the mutations are the ledger's.                     *)
(*                                                                         *)
(* A decision_id is the hash of its evidence, taken to be injective: a row *)
(* of legal_hold_guard_decisions is its evidence, and ON CONFLICT DO       *)
(* NOTHING is set union.                                                   *)
(***************************************************************************)
EXTENDS HoldStore

CONSTANTS
    GuardCalls,          \* slots for concurrent guard evaluations
    Checks               \* the validated checks callers may ask for

(***************************************************************************)
(* A check names one concrete subject of one target.  Its caller, mode and *)
(* reason are only copied into the evidence: action stands for them.       *)
(***************************************************************************)
Check == [action: Texts, target: Targets, subject: Subjects]

ASSUME GuardAssumption == Checks \subseteq Check /\ None \notin GuardCalls

VARIABLES
    legal_hold_guard_decisions,   \* the evidence stored so far
    guard_phase,                  \* guard call -> statement about to run
    check,                        \* guard call -> what it checks, or None
    matching,                     \* guard call -> what the SELECT returned
    decision,                     \* guard call -> its answer, or None
    standing,                     \* history: holds that have matched the
                                  \* check in every state of the call
    seen                          \* history: holds that have matched it in
                                  \* some state of the call

guardVars == <<legal_hold_guard_decisions, guard_phase, check, matching,
               decision>>
history == <<standing, seen>>
vars == <<ledgerVars, guardVars, history>>

(***************************************************************************)
(* A matching hold with the revision read; rows counts its appearances in  *)
(* matching_holds, one for each of its scopes that match.                  *)
(***************************************************************************)
Match == [hold: Holds, revision: Nat, rows: Nat]
Evidence == [check: Checks, matching_holds: SUBSET Match]
Decision == [outcome: {"Ok"}, allowed: BOOLEAN, evidence: Evidence]
              \cup [outcome: {"PluginFailure"}, allowed: {FALSE},
                    evidence: {None}]

GuardTypeOK ==
    /\ Ledger!TypeOK
    /\ \A e \in legal_hold_guard_decisions :
         e.check \in Checks /\ e.matching_holds \subseteq Match
    /\ guard_phase \in [GuardCalls -> {"idle", "evaluate", "store", "orphan"}]
    /\ check \in [GuardCalls -> Checks \cup {None}]
    /\ \A g \in GuardCalls : matching[g] \subseteq Match
    /\ \A g \in GuardCalls :
         decision[g] # None =>
             /\ decision[g].allowed \in BOOLEAN
             /\ decision[g].outcome = "PluginFailure" => ~decision[g].allowed
    /\ standing \in [GuardCalls -> SUBSET Holds]
    /\ seen \in [GuardCalls -> SUBSET Holds]

Init ==
    /\ Ledger!Init
    /\ legal_hold_guard_decisions = {}
    /\ guard_phase = [g \in GuardCalls |-> "idle"]
    /\ check = [g \in GuardCalls |-> None]
    /\ matching = [g \in GuardCalls |-> {}]
    /\ decision = [g \in GuardCalls |-> None]
    /\ standing = [g \in GuardCalls |-> {}]
    /\ seen = [g \in GuardCalls |-> {}]
-----------------------------------------------------------------------------
(***************************************************************************)
(* The SELECT: active holds joined with their scopes of the target whose   *)
(* subject is NULL or the one checked, one row for each such scope.        *)
(***************************************************************************)
SubjectEquals(scope, c) == scope.subject = c.subject
SubjectCovers(scope, c) == scope.subject = None \/ scope.subject = c.subject

MatchingScopes(c, h) ==
    {s \in legal_hold_scopes[h] : s.target = c.target /\ SubjectCovers(s, c)}

NotAbsent(row) == row # None
StatusActive(row) == row # None /\ row.status = "active"

MatchingHolds(c) ==
    { [hold |-> h, revision |-> legal_holds[h].revision,
       rows |-> Cardinality(MatchingScopes(c, h))] :
      h \in {i \in Holds : /\ StatusActive(legal_holds[i])
                          /\ MatchingScopes(c, i) # {}} }

(***************************************************************************)
(* The evidence is made of what the SELECT returned and of the check.      *)
(***************************************************************************)
EvidenceReadAgain(g) ==
    [check |-> check[g],
     matching_holds |-> {[m EXCEPT !.revision = legal_holds[m.hold].revision] :
                         m \in matching[g]}]

EvidenceOf(g) == [check |-> check[g], matching_holds |-> matching[g]]

Decide(g) ==
    [outcome |-> "Ok", allowed |-> matching[g] = {}, evidence |-> EvidenceOf(g)]

FailureAllows == [outcome |-> "PluginFailure", allowed |-> TRUE, evidence |-> None]

Failure == [outcome |-> "PluginFailure", allowed |-> FALSE, evidence |-> None]
-----------------------------------------------------------------------------
(***************************************************************************)
(* What a hold is for: an active hold protects the subject of a check when *)
(* one of its scopes is that target, for all subjects or for that one.     *)
(***************************************************************************)
ProtectingScopes(c, scopes) ==
    {s \in scopes : s.target = c.target /\ s.subject \in {None, c.subject}}

Protects(c, row, scopes) ==
    row.status = "active" /\ ProtectingScopes(c, scopes) # {}

ProtectingHolds(c) ==
    {h \in Holds : /\ legal_holds[h] # None
                   /\ Protects(c, legal_holds[h], legal_hold_scopes[h])}

(***************************************************************************)
(* What the history of a call becomes when the tables change.              *)
(***************************************************************************)
Observe ==
    /\ standing' = [g \in GuardCalls |->
         IF guard_phase[g] = "idle" THEN standing[g]
         ELSE standing[g] \cap ProtectingHolds(check[g])']
    /\ seen' = [g \in GuardCalls |->
         IF guard_phase[g] = "idle" THEN seen[g]
         ELSE seen[g] \cup ProtectingHolds(check[g])']

Mutate == Ledger!Next /\ UNCHANGED guardVars /\ Observe

BeginCheck(g, c) ==
    /\ guard_phase[g] = "idle"
    /\ guard_phase' = [guard_phase EXCEPT ![g] = "evaluate"]
    /\ check' = [check EXCEPT ![g] = c]
    /\ matching' = [matching EXCEPT ![g] = {}]
    /\ decision' = [decision EXCEPT ![g] = None]
    /\ standing' = [standing EXCEPT ![g] = ProtectingHolds(c)]
    /\ seen' = [seen EXCEPT ![g] = ProtectingHolds(c)]
    /\ UNCHANGED <<ledgerVars, legal_hold_guard_decisions>>

Evaluate(g) ==
    /\ guard_phase[g] = "evaluate"
    /\ matching' = [matching EXCEPT ![g] = MatchingHolds(check[g])]
    /\ guard_phase' = [guard_phase EXCEPT ![g] = "store"]
    /\ UNCHANGED <<ledgerVars, legal_hold_guard_decisions, check, decision,
                   history>>

(***************************************************************************)
(* INSERT ... ON CONFLICT(decision_id) DO NOTHING commits by itself, and   *)
(* is answered unless the caller has gone.                                 *)
(***************************************************************************)
StoreDecision(g) ==
    /\ guard_phase[g] \in {"store", "orphan"}
    /\ legal_hold_guard_decisions' =
         legal_hold_guard_decisions \cup {EvidenceOf(g)}
    /\ decision' = IF guard_phase[g] = "orphan" THEN decision
                   ELSE [decision EXCEPT ![g] = Decide(g)]
    /\ guard_phase' = [guard_phase EXCEPT ![g] = "idle"]
    /\ UNCHANGED <<ledgerVars, check, matching, history>>

(***************************************************************************)
(* Either statement may fail, and the call may be cancelled.  An INSERT    *)
(* that has been sent may still run, or not.                               *)
(***************************************************************************)
IgnoreStoreError(g) ==
    /\ guard_phase[g] \in {"evaluate", "store"}
    /\ decision' = [decision EXCEPT
                      ![g] = IF guard_phase[g] = "store" THEN Decide(g) ELSE Failure]
    /\ guard_phase' = [guard_phase EXCEPT ![g] = "idle"]
    /\ UNCHANGED <<ledgerVars, legal_hold_guard_decisions, check, matching,
                   history>>

FailCheck(g) ==
    /\ guard_phase[g] \in {"evaluate", "store"}
    /\ decision' = [decision EXCEPT ![g] = Failure]
    /\ guard_phase' = [guard_phase EXCEPT
                        ![g] = IF @ = "store" THEN "orphan" ELSE "idle"]
    /\ UNCHANGED <<ledgerVars, legal_hold_guard_decisions, check, matching,
                   history>>

DropInsert(g) ==
    /\ guard_phase[g] = "orphan"
    /\ guard_phase' = [guard_phase EXCEPT ![g] = "idle"]
    /\ UNCHANGED <<ledgerVars, legal_hold_guard_decisions, check, matching,
                   decision, history>>

GuardStep(g) ==
    Evaluate(g) \/ StoreDecision(g) \/ FailCheck(g) \/ DropInsert(g)

Next ==
    \/ Mutate
    \/ \E g \in GuardCalls :
         \/ \E c \in Checks : BeginCheck(g, c)
         \/ GuardStep(g)

Spec == Init /\ [][Next]_vars
-----------------------------------------------------------------------------
Decided(g) == decision[g] # None /\ decision[g].outcome = "Ok"

(***************************************************************************)
(* A hold in force during a whole evaluation is never missed: whatever is  *)
(* committed around the two statements, the answer is not "allowed".       *)
(***************************************************************************)
StandingHoldBlocks ==
    \A g \in GuardCalls :
        (Decided(g) /\ standing[g] # {}) =>
            /\ ~decision[g].allowed
            /\ \A h \in standing[g] :
                 \E m \in decision[g].evidence.matching_holds : m.hold = h

(***************************************************************************)
(* A denial names only holds that did protect the subject at some moment   *)
(* of the call.                                                            *)
(***************************************************************************)
DenialHasACause ==
    \A g \in GuardCalls :
        (Decided(g) /\ ~decision[g].allowed) =>
            /\ decision[g].evidence.matching_holds # {}
            /\ \A m \in decision[g].evidence.matching_holds : m.hold \in seen[g]

(***************************************************************************)
(* Evidence before answer: a decision a caller holds has its evidence      *)
(* stored, and an allowed one was stored as matching nothing.              *)
(***************************************************************************)
EvidenceBeforeAnswer ==
    \A g \in GuardCalls : Decided(g) =>
        /\ decision[g].evidence \in legal_hold_guard_decisions
        /\ decision[g].evidence.check = check[g]
        /\ decision[g].allowed <=> decision[g].evidence.matching_holds = {}

(***************************************************************************)
(* Evidence is derivable again: each (hold, revision) that a stored        *)
(* decision cites is the revision of one receipt, and the hold as that     *)
(* receipt returned it was active and had exactly the matching scopes      *)
(* counted.                                                                *)
(***************************************************************************)
EvidenceRederivable ==
    \A e \in legal_hold_guard_decisions : \A m \in e.matching_holds :
        \E k \in ReceiptsOf(m.hold, m.revision) :
            LET then == legal_hold_commands[k].response IN
            /\ Protects(e.check, then.row, then.scopes)
            /\ Cardinality(ProtectingScopes(e.check, then.scopes)) = m.rows
=============================================================================
