--------------------------- MODULE KernelSelection ---------------------------
(***************************************************************************)
(* How an op picks the implementation of a call (tileops/ops/op_base.py):  *)
(* the constructor merges the caller's kernel_map= with the op's own map,  *)
(* after any number of ops above it handed it down, and select_kernel_key  *)
(* asks every candidate.  Keys are scanned in every order: the order is    *)
(* what the answer must not depend on.                                     *)
(***************************************************************************)
EXTENDS FiniteSets

CONSTANTS
    Names,      \* dispatch keys a caller may write
    Own,        \* the keys of default_kernel_map
    Parents,    \* those of the ops that may hand a map down; {} for a composite
    Declared,   \* the keys the manifest declares for any op; empty if unreadable
    Classes,    \* kernel classes
    Shipped,    \* default_kernel_map
    General,    \* the classes marked general
    Calls,
    Serves      \* Serves[c]: the calls whose refusal(call) is None

Errors == {"no implementation", "ambiguous", "replacement refused"}
Undecided == "undecided"

ASSUME SelectionAssumption ==
    /\ Names \cap (Errors \cup {Undecided}) = {}
    /\ Own \subseteq Names /\ Own # {}
    /\ Parents \subseteq SUBSET Names
    /\ Declared \subseteq Names
    /\ Shipped \in [Own -> Classes]
    /\ General \subseteq Classes
    /\ Serves \in [Classes -> SUBSET Calls]

VARIABLES
    given,      \* the caller's kernel_map=, by name
    above,      \* the key sets of the ops that handed the map down on its way to this one
    override,   \* what reaches the constructor of this op
    kernel_map, overridden,
    call, keys, left, applicable, refused,
    answer, pc

opVars == <<given, above, override, kernel_map, overridden>>
callVars == <<call, keys, left, applicable, refused, answer>>
selectionVars == <<given, above, override, kernel_map, overridden,
                   call, keys, left, applicable, refused, answer, pc>>

\* The replacements a caller may write.
Overrides == UNION {[names -> Classes] : names \in SUBSET Names}

InitSelection ==
    /\ given \in Overrides /\ override = given /\ above = {}
    /\ kernel_map = Shipped /\ overridden = {}
    /\ call \in Calls
    /\ keys = {} /\ left = {} /\ applicable = {} /\ refused = {}
    /\ answer = Undecided
    /\ pc = "construct"

\* A name nothing declares replaces nothing, and is refused; another op's is left alone.
\* An op without a map of its own does not ask.
Stale(own) ==
    IF Declared = {} \/ own = {} THEN {} ELSE (DOMAIN override \ Declared) \ own

\* Bug: an op hands down its resolved map, which marks every key as replaced.
forwardWholeMap ==
    /\ pc = "construct"
    /\ \E parent \in Parents :
         IF Stale(parent) # {}
         THEN pc' = "rejected" /\ UNCHANGED <<above, override>>
         ELSE /\ override' = [name \in DOMAIN override \cup Own |->
                               IF name \in DOMAIN override THEN override[name] ELSE Shipped[name]]
              /\ above' = above \cup {parent}
              /\ UNCHANGED pc
    /\ UNCHANGED <<given, kernel_map, overridden, callVars>>

\* One more op on the way: it installs its map and hands its overridden keys to the op it
\* builds.  A key it does not have goes no further, unless it is a composite.
forwarded_overrides ==
    /\ pc = "construct"
    /\ \E parent \in Parents :
         IF Stale(parent) # {}
         THEN pc' = "rejected" /\ UNCHANGED <<above, override>>
         ELSE /\ override' = IF parent = {} THEN override
                             ELSE [name \in DOMAIN override \cap parent |-> override[name]]
              /\ above' = above \cup {parent}
              /\ UNCHANGED pc
    /\ UNCHANGED <<given, kernel_map, overridden, callVars>>

_install_kernel_map ==
    /\ pc = "construct"
    /\ IF Stale(Own) # {}
       THEN pc' = "rejected" /\ UNCHANGED <<kernel_map, overridden>>
       ELSE /\ kernel_map' = [name \in Own |->
                               IF name \in DOMAIN override THEN override[name] ELSE Shipped[name]]
            /\ overridden' = DOMAIN override \cap Own
            /\ pc' = "ready"
    /\ UNCHANGED <<given, above, override, callVars>>

\* select_kernel_key: the caller names the candidates, or takes every installed key.
Ask ==
    /\ pc \in {"ready", "decided"}
    /\ call' \in Calls
    /\ keys' \in (SUBSET Names \ {{}})
    /\ left' = keys' /\ applicable' = {} /\ refused' = {}
    /\ answer' = Undecided
    /\ pc' = "scan"
    /\ UNCHANGED opVars

\* A key this op has no class for is passed over.
Candidate(name) == name \in DOMAIN kernel_map
\* One candidate answers for itself.
Refusal(name) == call \notin Serves[kernel_map[name]]

\* Bug: a class that refuses is not remembered as a refused replacement.
ScanForgets ==
    /\ pc = "scan"
    /\ \E name \in left :
         /\ left' = left \ {name}
         /\ applicable' = IF Candidate(name) /\ ~Refusal(name)
                          THEN applicable \cup {name} ELSE applicable
    /\ UNCHANGED <<opVars, call, keys, refused, answer, pc>>

Scan ==
    /\ pc = "scan"
    /\ \E name \in left :
         /\ left' = left \ {name}
         /\ \/ ~Candidate(name) /\ UNCHANGED <<applicable, refused>>
            \/ /\ Candidate(name) /\ ~Refusal(name)
               /\ applicable' = applicable \cup {name}
               /\ UNCHANGED refused
            \/ /\ Candidate(name) /\ Refusal(name)
               /\ refused' = refused \cup ({name} \cap overridden)
               /\ UNCHANGED applicable
    /\ UNCHANGED <<opVars, call, keys, answer, pc>>

Specialised(names) == {name \in names : kernel_map[name] \notin General}

\* Bug: the general implementation is preferred to the specialised ones.
ChosenGeneral(names) == IF Specialised(names) = names THEN names ELSE names \ Specialised(names)
Chosen(names) == IF Specialised(names) # {} THEN Specialised(names) ELSE names

\* Bug: the first candidate that serves is taken, so the order of the keys decides.
DecideFirst ==
    /\ pc = "scan" /\ (left = {} \/ applicable # {})
    /\ answer' \in (IF applicable = {} THEN {"no implementation"} ELSE applicable)
    /\ pc' = "decided"
    /\ UNCHANGED <<opVars, call, keys, left, applicable, refused>>

Decide ==
    /\ pc = "scan" /\ left = {}
    /\ \/ \E name \in Chosen(applicable) :
            /\ Chosen(applicable) = {name}
            /\ answer' = IF refused # {} /\ name \notin overridden
                         THEN "replacement refused" ELSE name
       \/ Chosen(applicable) = {} /\ answer' = "no implementation"
       \/ /\ \E n, m \in Chosen(applicable) : n # m
          /\ answer' = "ambiguous"
    /\ pc' = "decided"
    /\ UNCHANGED <<opVars, call, keys, left, applicable, refused>>

\* A stale key ends the construction.
Rejected == pc = "rejected" /\ UNCHANGED selectionVars

NextSelection ==
    \/ forwarded_overrides \/ _install_kernel_map
    \/ Ask \/ Scan \/ Decide
    \/ Rejected

SpecSelection == InitSelection /\ [][NextSelection]_selectionVars

-----------------------------------------------------------------------------
\* The candidates the caller named that serve the call, and the replacements that do not.
ServingKeys == {name \in keys : Candidate(name) /\ ~Refusal(name)}
Refusing == {name \in keys \cap overridden : Candidate(name) /\ Refusal(name)}

\* Types; a key that is scanned is one the caller named (op_base.py:332).
SelectionTypeOK ==
    /\ given \in Overrides /\ override \in Overrides /\ above \subseteq Parents
    /\ kernel_map \in [Own -> Classes]
    /\ overridden \subseteq Own
    /\ call \in Calls /\ keys \subseteq Names
    /\ left \subseteq keys /\ applicable \subseteq keys \cap Own /\ refused \subseteq keys \cap Own
    /\ answer \in Own \cup Errors \cup {Undecided}
    /\ pc \in {"construct", "rejected", "ready", "scan", "decided"}

\* The answer is a function of the installed classes and the call: neither the order of the
\* keys nor an implementation naming another decides it (op_base.py:321).
OrderFree ==
    pc = "decided" =>
        \/ \E name \in Own :
             /\ Chosen(ServingKeys) = {name}
             /\ answer = IF Refusing # {} /\ name \notin overridden
                         THEN "replacement refused" ELSE name
        \/ Chosen(ServingKeys) = {} /\ answer = "no implementation"
        \/ (\E n, m \in Chosen(ServingKeys) : n # m) /\ answer = "ambiguous"

\* A general implementation answers exactly when no specialised candidate serves the call
\* (op_base.py:319).
SpecialisedFirst ==
    pc = "decided" /\ answer \in Own =>
        (kernel_map[answer] \in General <=> \A name \in ServingKeys : kernel_map[name] \in General)

\* A replacement that cannot serve the call is an error, not a reason to run the shipped
\* implementation (op_base.py:324).
NoShippedStandIn ==
    pc = "decided" /\ answer \in Own \ overridden => Refusing = {}

\* The caller's names that every op on the way with keys of its own has too.
HandedOver == {name \in DOMAIN given : \A parent \in above : parent = {} \/ name \in parent}

\* However many ops hand the caller's map down, in whatever order, a key counts as replaced
\* exactly when the caller wrote it and no op on the way lacked it, and then it is the
\* caller's class that is installed (op_base.py:302).
ReplacedByCaller ==
    pc \in {"ready", "scan", "decided"} =>
        \A name \in Own :
            /\ name \in overridden <=> name \in HandedOver
            /\ kernel_map[name] = IF name \in HandedOver THEN given[name] ELSE Shipped[name]

\* Why the order does not matter: the scan partitions the keys it has seen.
ScanInv ==
    pc \in {"scan", "decided"} =>
        /\ applicable = {name \in keys \ left : Candidate(name) /\ ~Refusal(name)}
        /\ refused = {name \in (keys \ left) \cap overridden : Candidate(name) /\ Refusal(name)}
=============================================================================
