-------------------------- MODULE OrderSelectors_proofs --------------------------
(***************************************************************************)
(* Proofs about OrderSelectors: as long as agents write selectors as they  *)
(* were given, each is good for one preview.                               *)
(***************************************************************************)
EXTENDS OrderSelectors, TLAPS

\* A selector a preview was kept for is consumed, and nothing undoes that.
SelectorInv ==
    /\ bindings \in [Selector -> Binding]
    /\ kept \in [Selector -> 0..1]
    /\ \A s \in Selector : kept[s] = 1 => bindings[s].consumed
    /\ call \in [Calls -> [at : {"idle", "fetching", "resolved"}, generation : 0..MaxGeneration,
                           references : SUBSET [selector : Selector, spelling : {"plain"}]]]

\* A call that spells its selectors as they were given consumes all of them.
LEMMA PlainArePending ==
    ASSUME SelectorInv, NEW c \in Calls
    PROVE  Pending(c) = {r.selector : r \in call[c].references}
<1>1. \A q \in call[c].references : q.spelling = "plain"
  BY DEF SelectorInv
<1> QED
  BY <1>1 DEF Pending

\* Consuming is the one step that counts a preview: each selector of the call was unused.
LEMMA ConsumeStep ==
    ASSUME MaxGeneration \in Nat, SelectorInv, NEW c \in Calls, Consume(c)
    PROVE  SelectorInv'
<1> USE DEF SelectorInv
<1>1. CASE \A s \in Pending(c) : Usable(s)
  <2>1. \A s \in Pending(c) : ~bindings[s].consumed
    BY <1>1 DEF Usable
  <2>2. \A s \in Selector :
           (\E r \in call[c].references : r.selector = s) <=> s \in Pending(c)
    BY PlainArePending
  <2>3. bindings' = [s \in Selector |->
           IF s \in Pending(c) THEN [bindings[s] EXCEPT !.consumed = TRUE] ELSE bindings[s]]
    BY <1>1 DEF Consume
  <2>4. \A s \in Selector : kept'[s] = IF s \in Pending(c) THEN kept[s] + 1 ELSE kept[s]
    BY <1>1, <2>2 DEF Consume
  <2>5. bindings' \in [Selector -> Binding]
    BY <2>3 DEF Binding
  <2>6. \A s \in Selector : bindings'[s].consumed = (bindings[s].consumed \/ s \in Pending(c))
    BY <2>3 DEF Binding
  <2>7. \A s \in Selector : s \in Pending(c) => kept[s] = 0
    BY <2>1
  <2>8. kept' = [s \in Selector |-> IF s \in Pending(c) THEN kept[s] + 1 ELSE kept[s]]
    BY <1>1, <2>2 DEF Consume
  <2>9. kept' \in [Selector -> 0..1]
    BY <2>7, <2>8
  <2>10. \A s \in Selector : kept'[s] = 1 => bindings'[s].consumed
    BY <2>4, <2>6
  <2>11. call' \in [Calls -> [at : {"idle", "fetching", "resolved"}, generation : 0..MaxGeneration,
                              references : SUBSET [selector : Selector, spelling : {"plain"}]]]
    BY DEF Consume, Returned
  <2> QED
    BY <2>5, <2>9, <2>10, <2>11
<1>2. CASE ~\A s \in Pending(c) : Usable(s)
  BY <1>2 DEF Consume, Returned
<1> QED
  BY <1>1, <1>2

LEMMA SelectorStep ==
    ASSUME Spellings = {"plain"}, MaxGeneration \in Nat, TTL \in Nat,
           now \in Nat, generation \in 0..MaxGeneration, SelectorInv, [Next]_vars
    PROVE  SelectorInv' /\ now' \in Nat /\ generation' \in 0..MaxGeneration
<1> USE DEF SelectorInv
<1>1. ASSUME NEW orders \in SUBSET Orders, NEW a \in Accounts, NEW g \in 0..generation,
             EmitSelectors(orders, a, g)
      PROVE  SelectorInv'
  <2>1. now + TTL \in Int
    OBVIOUS
  <2>2. bindings' \in [Selector -> Binding]
    BY <1>1, <2>1 DEF EmitSelectors, Binding
  <2>3. \A s \in Selector : bindings[s].consumed => bindings'[s].consumed
    BY <1>1 DEF EmitSelectors, Binding
  <2> QED
    BY <1>1, <2>2, <2>3 DEF EmitSelectors
<1>2. ASSUME NEW c \in Calls, NEW references \in SUBSET [selector : Selector, spelling : Spellings],
             BeginPreview(c, references)
      PROVE  SelectorInv'
  BY <1>2 DEF BeginPreview
<1>3. ASSUME NEW c \in Calls, NEW a \in Accounts, Resolve(c, a) PROVE SelectorInv'
  BY <1>3 DEF Resolve
<1>4. ASSUME NEW c \in Calls, Denied(c) PROVE SelectorInv'
  BY <1>4 DEF Denied, Returned
<1>5. ASSUME NewGeneration \/ Tick \/ UNCHANGED vars PROVE SelectorInv'
  BY <1>5 DEF NewGeneration, Tick, vars
<1>6. SelectorInv'
  BY <1>1, <1>2, <1>3, <1>4, <1>5, ConsumeStep DEF Next
<1>7. now' \in Nat /\ generation' \in 0..MaxGeneration
  BY DEF Next, vars, EmitSelectors, BeginPreview, Resolve, Denied, Consume, NewGeneration, Tick
<1> QED
  BY <1>6, <1>7

\* While selectors are written as they were given, one preview is kept for each, for any number
\* of orders, accounts, calls and token generations (process_scoped_selectors.py:260).
THEOREM PlainSelectorsOneTime ==
    ASSUME Spellings = {"plain"}, MaxGeneration \in Nat, TTL \in Nat
    PROVE  Spec => []OneTime
<1> DEFINE Inv == SelectorInv /\ now \in Nat /\ generation \in 0..MaxGeneration
<1>1. Init => Inv
  BY DEF Init, SelectorInv, Binding, Unbound, Returned
<1>2. Inv /\ [Next]_vars => Inv'
  BY SelectorStep
<1>3. Inv => OneTime
  BY DEF SelectorInv, OneTime
<1> QED
  BY <1>1, <1>2, <1>3, PTL DEF Spec
===============================================================================
