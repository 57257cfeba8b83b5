---------------------------- MODULE MCOidcTokens ----------------------------
(***************************************************************************)
(* Small instances of OidcTokens for TLC.                                  *)
(***************************************************************************)
EXTENDS OidcTokens, TLC

Symmetry == Permutations(Tasks) \cup Permutations(Codes)

\* A row that has expired is refused like one that was deleted, except by a
\* guarded UPDATE that follows a read made in time; and a code that was used is
\* refused like a deleted one.  TLC need not tell these apart.
Midway(pc, r) == \E p \in Tasks : task[p].pc = pc /\ r \in {task[p].code, task[p].old}
DeadCode(c) == code[c] = "used" \/ (CodeRow(c) \in expired /\ ~Midway("mark", c))
DeadRefresh(n) ==
  RefreshRow(n) \in expired /\ (refresh[n] = "used" \/ ~Midway("consume", n))

\* What a handler read to get where it is.
Needed(t) ==
  [t EXCEPT !.usable = t.pc = "loadgate" /\ @,
            !.code = IF t.new = NoPair THEN @ ELSE NoCode,
            !.old = IF t.new = NoPair THEN @ ELSE NoPair]

View ==
  LET acc == [n \in Pairs |-> IF AccessRow(n) \in expired THEN "gone" ELSE access[n]]
      ref == [n \in Pairs |-> IF DeadRefresh(n) THEN "gone" ELSE refresh[n]]
      dead == {n \in Pairs : acc[n] = "gone" /\ ref[n] \in {"none", "used", "gone"}
                               /\ \A p \in Tasks : task[p].new # n}
  IN  <<account, origin, parent, idToken, acc, ref, voidPairs \ dead,
        [p \in Tasks |-> [Needed(task[p]) EXCEPT !.pairs = @ \ dead]],
        [c \in Codes |-> IF DeadCode(c) THEN "gone" ELSE code[c]],
        {x \in expired : \/ x[1] = "code" /\ ~DeadCode(x[2])
                         \/ x[1] = "refresh" /\ ~DeadRefresh(x[2])}>>
=============================================================================
