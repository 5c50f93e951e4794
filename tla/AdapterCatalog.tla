--------------------------- MODULE AdapterCatalog ---------------------------
(***************************************************************************)
(* The registered adapters (adapters.Registry) and the order in which the  *)
(* planner (internal/router) has the engine try them for a wanted field.   *)
(* Among equally dense steps of different price the order is left open:    *)
(* the code compares quotients of floating-point numbers.                  *)
(***************************************************************************)
EXTENDS ProviderAdapters

VARIABLES
    want,       \* the field being filled
    tried,      \* adapters called for it
    answer      \* what the last of them decoded

vars == <<want, tried, answer>>

Registered == Contacts \cup Verifiers \cup Companies

(* Can: the adapters that advertise a field.                                 *)
Able(f) == {a \in Registered : f \in DOMAIN a.caps}

Field == UNION {DOMAIN a.caps : a \in Registered}

-----------------------------------------------------------------------------
(* Plan *)

WrongDensity(a, f) == <<a.caps[f], IF a.cost <= 0 THEN 1 ELSE a.cost>>

(* Expected confidence per credit, as a fraction; a free provider is taken   *)
(* a million times as dense.                                                 *)
Density(a, f) == IF a.cost <= 0 THEN <<a.caps[f] * 1000000, 1>> ELSE <<a.caps[f], a.cost>>

Denser(d, e) == d[1] * e[2] > e[1] * d[2]

(* The same price and prior: the name decides.                               *)
Twins(a, f) == {b \in Able(f) : b.cost = a.cost /\ b.caps[f] = a.caps[f]}

(* The adapters that may come next in f's plan.                              *)
NextUp(f, done) ==
    LET left == Able(f) \ done
        top == {a \in left : \A b \in left : ~Denser(Density(b, f), Density(a, f))} IN
    {a \in top : a = CHOOSE b \in Twins(a, f) \cap left : TRUE}

-----------------------------------------------------------------------------
Nothing == [by |-> "none", class |-> "ok", values |-> <<>>]

Init == want \in Field /\ tried = {} /\ answer = Nothing

(* fillField calls the next adapter of the plan and takes what it decodes;   *)
(* it may stop after any of them.                                            *)
Try(a) ==
    /\ a \in NextUp(want, tried)
    /\ tried' = tried \cup {a}
    /\ \E body \in Bodies(a, {want}) :
           LET d == Decode(a, body) IN
           answer' = [by |-> a.name, class |-> d.class, values |-> d.values]
    /\ UNCHANGED want

Next == \E a \in Registered : Try(a)

-----------------------------------------------------------------------------
(* Properties *)

(* Registry names are unique; a field the planner may buy from an adapter is *)
(* one its decoder can fill, and what it decodes beyond them is a field its  *)
(* request was built from (a normalised phone number).  No decoded value is  *)
(* blank, which FieldValue.Valid would reject on every replay of the call.   *)
AnswersFit ==
    /\ Cardinality({a.name : a \in Registered}) = Cardinality(Registered)
    /\ \A a \in Registered :
          /\ DOMAIN a.caps \subseteq DOMAIN a.gives
          /\ DOMAIN a.gives \ DOMAIN a.caps \subseteq a.asks
          /\ a.sure \subseteq DOMAIN a.caps
    /\ \A f \in DOMAIN answer.values : answer.values[f] # "blank"

(* No credit is reserved for a field while a free registry that advertises   *)
(* it is untried.                                                            *)
FreeFirst ==
    (\E a \in tried : a.cost > 0) => {a \in Able(want) : a.cost = 0} \subseteq tried
=============================================================================
