---------------------------- MODULE MCComponents ----------------------------
(***************************************************************************)
(* The components that are checked for safety alone, each explored on its  *)
(* own: the alias table, the isotonic fit, the fusion of confidences, the  *)
(* plans over the adapter catalogue, the leasing of a key's daily budget,  *)
(* and the operators' writes to keys and to providers.                     *)
(***************************************************************************)
EXTENDS KeyLease, KeyAdmin, ProviderAdmin, TLC

CONSTANTS MaxKeys, MaxKeyWeight, MaxScore, MaxWeight, MaxPoints, Unit, MaxObservations

VARIABLES
    part,                                                   \* the algorithm under way
    weights, scaled, small, large, prob, alias, pc,         \* of AliasTable
    points, blocks, seen, fused,                            \* of Calibration
    want, tried, found                                      \* of AdapterCatalog

Alias == INSTANCE AliasTable WITH MaxWeight <- MaxKeyWeight
Confidence == INSTANCE Calibration
Adapters == INSTANCE AdapterCatalog WITH answer <- found

table == <<weights, scaled, small, large, prob, alias, pc>>
confidence == <<points, blocks, seen, fused>>
plan == <<want, tried, found>>

NoTable ==
    /\ weights = <<>> /\ scaled = <<>> /\ small = <<>> /\ large = <<>>
    /\ prob = <<>> /\ alias = <<>> /\ pc = "nil"

NoPlan == want = "none" /\ tried = {} /\ found = Adapters!Nothing

(* Three requests of a menu meet two keys in a pool, or no keys at all.      *)
Row(envelope) == [env |-> envelope, status |-> "active", to |-> 0, via |-> "import", of |-> 0, known |-> 0]
Create(m, P) == [act |-> "create", material |-> m, pools |-> P]
RotateTo(k, m, o) == [act |-> "rotate", key |-> k, material |-> m, overlap |-> o]
Bulk(a, K) == [act |-> a, keys |-> K]
OnPool(a, p, K) == [act |-> a, pool |-> p, keys |-> K]

Menu ==
    <<Create("m1", {"p1"}), Create("m1", {}), Create("m0", {}),
      RotateTo(1, "m1", TRUE), RotateTo(1, "m2", FALSE),
      Bulk("archive", {1, 2}), Bulk("enable", {1, 2}), Bulk("disable", {1}),
      OnPool("drop pool", "p1", {}), OnPool("members", "p1", {1, 3})>>
FirstUse ==
    <<Create("m1", {"p1"}), OnPool("add pool", "p1", {}), [act |-> "drop provider"], Create("m1", {})>>

Three(menu, t) == [r \in Caller |-> IF r = "c1" THEN menu[t[1]] ELSE IF r = "c2" THEN menu[t[2]] ELSE menu[t[3]]]
Triples(n) == {t \in (1 .. n) \X (1 .. n) \X (1 .. n) : t[1] <= t[2] /\ t[2] <= t[3]}

MCOrders ==
    {[requests |-> Three(Menu, t), keys |-> <<Row("e1"), Row("e2")>>, pools |-> {"p1"}] : t \in Triples(10)}
    \cup {[requests |-> Three(FirstUse, t), keys |-> <<>>, pools |-> {}] : t \in Triples(4)}

(* o1 and o2 are served by one replica, with the same Idempotency-Key; o3 by *)
(* another one.                                                              *)
MCHome == [r \in Operator |-> IF r = "o3" THEN "b" ELSE "a"]
OneKey == [r \in Operator |-> "k"]
Do(o, s) == [op |-> o, id |-> s]
Together(a, b, c) == [r \in Operator |-> IF r = "o1" THEN a ELSE IF r = "o2" THEN b ELSE c]
MCErrands ==
    {Together(Do("enable", "p"), Do("enable", "p"), Do("disable", "p")),
     Together(Do("disable", "p"), Do("enable", "p"), Do("disable", "p")),
     Together(Do("duplicate", "p"), Do("duplicate", "p"), Do("maintenance", "p")),
     Together(Do("duplicate", "p"), Do("patch", "q"), Do("delete", "p")),
     Together(Do("create", "p"), Do("create", "p"), Do("delete", "p")),
     Together(Do("delete", "p"), Do("delete", "p"), Do("create", "p")),
     Together(Do("delete", "p"), Do("test", "p"), Do("pause", "p")),
     Together(Do("health", "p"), Do("health", "p"), Do("delete", "p")),
     Together(Do("archive", "p"), Do("refresh", "p"), Do("sync", "p"))}

-----------------------------------------------------------------------------
(* A part that does not run has one initial state.                           *)
ComponentsInit ==
    /\ \/ part = "alias" /\ Alias!Init /\ NoPlan
       \/ part \in {"fit", "fuse", "lease", "keys", "providers"} /\ NoTable /\ NoPlan
       \/ part = "plan" /\ NoTable /\ Adapters!Init
    /\ Confidence!Init
    /\ part # "lease" => limit = Cap
    /\ Init
    /\ part # "keys" => order = Three(FirstUse, <<2, 2, 2>>)
    /\ KaInit
    /\ part # "providers" => errand = (CHOOSE e \in Errands : TRUE)
    /\ PaInit
    /\ part # "providers" => \A s \in Slug : rows[s] # Nil

algorithmVars == <<table, confidence, plan>>

ComponentsNext ==
    \/ /\ \/ part = "alias" /\ Alias!Next /\ UNCHANGED <<confidence, plan>>
          \/ part = "fit" /\ Confidence!Fit /\ UNCHANGED <<table, plan>>
          \/ part = "fuse" /\ Confidence!Fuse /\ UNCHANGED <<table, plan>>
          \/ part = "plan" /\ Adapters!Next /\ UNCHANGED <<table, confidence>>
       /\ UNCHANGED <<part, vars, keyAdminVars, providerVars>>
    \/ part = "lease" /\ Next /\ UNCHANGED <<part, algorithmVars, keyAdminVars, providerVars>>
    \/ part = "keys" /\ KaNext /\ UNCHANGED <<part, algorithmVars, vars, providerVars>>
    \/ part = "providers" /\ PaNext /\ UNCHANGED <<part, algorithmVars, vars, keyAdminVars>>

ComponentsSpec ==
    ComponentsInit /\ [][ComponentsNext]_<<part, algorithmVars, vars, keyAdminVars, providerVars>>

Symmetry == Permutations(Instance)

-----------------------------------------------------------------------------
(* newAliasTable and sample: columns are fractions, the leftover loops meet  *)
(* nothing but rounding residue, and keys are drawn in proportion to their   *)
(* weights.                                                                  *)
DrawsByWeight == part = "alias" => Alias!TypeOK /\ Alias!NoResidue /\ Alias!DrawsByWeight

(* FitIsotonic is the least-squares monotone fit, Predict is monotone in the *)
(* raw score through it, and fuseAgreeing gives one result for all orders of *)
(* the observations.                                                         *)
ConfidenceIsSound ==
    /\ part = "fit" => Confidence!TypeOK /\ Confidence!FitIsIsotonic /\ Confidence!PredictMonotone
    /\ part = "fuse" => Confidence!FusionIsOrderFree

(* What an adapter decodes is what it advertises or was asked with, and is   *)
(* never blank; and a plan buys nothing while a free adapter for the field   *)
(* is untried.                                                               *)
AnswersFit == part = "plan" => Adapters!AnswersFit /\ Adapters!FreeFirst

(* BudgetManager: day_leased is exactly what was handed out, is still held   *)
(* or was lost, and a calendar day draws at most the limit and a batch of    *)
(* each instance.                                                            *)
BudgetsHold == Accounted /\ DrawsBounded

(* Operators' writes to keys, pools and providers leave nothing dangling and *)
(* every record explained by the writes, although each takes several         *)
(* transactions (keys/service.go, keys/pools.go, providers/service.go).      *)
RegistriesConsistent == KeysConsistent /\ ProvidersConsistent
=============================================================================
