--------------------------- MODULE MCNativeLedger ---------------------------
(* Instances of NativeLedger: two or three concurrent transactions on two  *)
(* or three resources and three paths.  Requests are written without their *)
(* mutation ids, which Numbered gives them by position, so each is sent    *)
(* any number of times but commits at most once.                           *)
EXTENDS NativeLedgerInv, TLC

CONSTANTS X, Y, Z, a, b, t1, t2, t3

Rank == (a :> 1) @@ (b :> 2) @@ (Y :> 3)
AllDocuments == [r \in {X, Y} |-> "document"]
TwoSurfaces == (X :> "document") @@ (Y :> "document") @@ (Z :> "file")

Ask(op, ref) == [op |-> op, mutation |-> 0, surface |-> "document", reference |-> ref,
                 pathTo |-> NoPath, resource |-> NoResource, expected |-> 0]
MoveTo(ref, to) == [Ask("move", ref) EXCEPT !.pathTo = to]
If(q, n) == [q EXCEPT !.expected = n]
Of(q, r) == [q EXCEPT !.resource = r]
File(q) == [q EXCEPT !.surface = "file"]
Numbered(s) == {[s[i] EXCEPT !.mutation = i] : i \in DOMAIN s}

\* Two documents and a file at each other's paths, one of which is an id:
\* paths swapped, vacated, reused and remembered, and reached by alias.
PathRequests == Numbered(<<
    Ask("create", a), Ask("create", b), MoveTo(a, b), MoveTo(b, a),
    Ask("replace", a), Ask("delete", a), Of(Ask("delete", b), Y),
    Of(File(Ask("create", a)), Z), File(Ask("delete", a)),
    Of(Ask("create", Y), X), MoveTo(Y, a)>>)

\* Writes from the same head, deletes, restores and a key used twice.
HistoryRequests ==
    LET base == Numbered(<<
            Of(Ask("create", a), X), If(Ask("replace", a), 1), If(Ask("replace", a), 1),
            Ask("delete", a), Of(If(Ask("restore", a), 2), X),
            Of(If(Ask("restore", a), 3), X), Ask("create", a)>>)
    IN  base \cup {[If(Ask("delete", a), 1) EXCEPT !.mutation = 2],
                    [Of(If(Ask("replace", a), 2), X) EXCEPT !.mutation = 5]}

Permuted == Permutations({t1, t2, t3})
MutationIds == 1..12
=============================================================================
