--------------------------- MODULE BackendCatalog ---------------------------
(***************************************************************************)
(* What discovery promises, without threads, locks or rollback: nobody     *)
(* sees a table before it is complete, and the complete tables are a       *)
(* function of what is installed.  An entry point is in with everything it *)
(* declares or not at all, earlier entry points win the cells, and each    *)
(* one that is not in has its line.  Bodies nest one import deep here.     *)
(***************************************************************************)
EXTENDS Naturals, Sequences

CONSTANTS Modules, EntryPoints, Body, Targets, Ops, NoModule, None, Builtin, Unpublished

VARIABLE view

At(m, kind) == {i \in DOMAIN Body[m] : Body[m][i].kind = kind}

\* The modules an import of m executes before its statement at position upto.
Helpers(m, upto) == {Body[m][i].module : i \in {i \in At(m, "import") : i < upto}}
Family(m) == {m} \cup Helpers(m, Len(Body[m]) + 1)

\* What m claims before its statement at position upto: cells with their owner.
OwnClaims(m, upto) ==
    {[cell |-> <<Body[m][i].target>>, by |-> m] : i \in {i \in At(m, "detector") : i < upto}}
        \cup {[cell |-> <<Body[m][i].op, Body[m][i].target>>, by |-> m] :
                i \in {i \in At(m, "builder") : i < upto}}
ClaimsBefore(m, upto) ==
    OwnClaims(m, upto)
        \cup UNION {OwnClaims(h, Len(Body[h]) + 1) : h \in Helpers(m, upto)}
Declares(m) == ClaimsBefore(m, Len(Body[m]) + 1)

Disjoint(claims, others) == \A c \in claims, o \in others : c.cell = o.cell => c = o
TargetsOf(claims) == {c.cell[Len(c.cell)] : c \in claims}

\* No statement of m, or of a module it imports, raises.
Sound(m, earlier) ==
    /\ \A n \in Family(m) :
         /\ At(n, "raise") = {}
         /\ \A i, j \in At(n, "detector") :
              Body[n][i].target = Body[n][j].target => i = j
         /\ \A i, j \in At(n, "builder") : Body[n][i] = Body[n][j] => i = j
    /\ Disjoint(Declares(m), Declares(m))
    /\ \A i \in At(m, "default") :
         Body[m][i].target \in TargetsOf(earlier \cup ClaimsBefore(m, i))

\* The default m leaves at its statement at position upto, given the one it found.
DefaultBefore(m, upto, found) ==
    LET choices == {i \in At(m, "default") : i < upto}
    IN IF choices = {} THEN found
       ELSE Body[m][CHOOSE i \in choices : \A j \in choices : j <= i].target

\* Tried[n]: what the first n entry points leave behind.
Tried[n \in 0..Len(EntryPoints)] ==
    IF n = 0 THEN [claims |-> {}, failures |-> <<>>, default |-> None]
    ELSE LET m == EntryPoints[n]
             before == Tried[n - 1]
         IN IF Sound(m, before.claims) /\ Disjoint(Declares(m), before.claims)
            THEN [claims |-> before.claims \cup Declares(m),
                  failures |-> before.failures,
                  default |-> DefaultBefore(m, Len(Body[m]) + 1, before.default)]
            ELSE [claims |-> before.claims, failures |-> Append(before.failures, m),
                  default |-> before.default]
Complete == Tried[Len(EntryPoints)]

Owner(cell) ==
    LET owners == {c.by : c \in {c \in Complete.claims : c.cell = cell}}
    IN IF owners = {} THEN NoModule ELSE CHOOSE m \in owners : TRUE

Catalog ==
    [detectors |-> [T \in Targets |-> Owner(<<T>>)],
     builders |-> [cell \in Ops \X Targets |-> Owner(cell)],
     loadFailures |-> Complete.failures,
     defaultTarget |-> Complete.default]

Known == TargetsOf(Complete.claims)

Init == view = Unpublished

Publish == view = Unpublished /\ view' = Catalog

SetDefault ==
    /\ view # Unpublished
    /\ \E target \in Known \cup {None, Builtin} :
         view' = [view EXCEPT !.defaultTarget = target]

Next == Publish \/ SetDefault

Spec == Init /\ [][Next]_view
=============================================================================
