------------------------ MODULE CausalVerifier_proofs ------------------------
(***************************************************************************)
(* The cycle search of the causal verifier is exact, for every trace.      *)
(*                                                                         *)
(* The argument: visited is closed under parents and grows from below, so  *)
(* no set of nodes that lives on its own parents ever meets it.  What an   *)
(* abandoned search leaves in visiting is such a set: on a hit every node  *)
(* on the stack has its successor, or the parent that was hit, in there.   *)
(* At the end each node is visited or reported, and the reported ones are  *)
(* among the leftovers.                                                    *)
(*                                                                         *)
(* That what is accepted could have happened follows from the order in     *)
(* which the search finishes the nodes (Ranks): every parent is finished   *)
(* before its child, so the records can be replayed in this order.         *)
(***************************************************************************)
EXTENDS CausalVerifier, CausalTrace_proofs, SequenceTheorems, FiniteSetTheorems, FunctionTheorems,
        WellFoundedInduction, TLAPS

OnStack == {stack[i].node : i \in 1 .. Len(stack)}

(* What is visited is finished.                                            *)
VisitedInv ==
  /\ visited \cap visiting = {}
  /\ \A n \in visited : edges[n] \subseteq visited
  /\ \A S \in SUBSET Nodes(trace) : Unfounded(S) => S \cap visited = {}

(* The frames: no node twice, each the parent of the one below, and of its *)
(* parents those that are not to be visited yet are being or were visited. *)
StackInv ==
  /\ OnStack \subseteq visiting
  /\ \A i, j \in 1 .. Len(stack) : stack[i].node = stack[j].node => i = j
  /\ \A i \in 1 .. Len(stack) :
       /\ stack[i].rest \subseteq edges[stack[i].node]
       /\ i < Len(stack) => stack[i + 1].node \in edges[stack[i].node]
       /\ \A p \in edges[stack[i].node] :
            \/ p \in visited \/ p \in stack[i].rest
            \/ i < Len(stack) /\ p = stack[i + 1].node

(* What abandoned searches left behind lives on its own parents.           *)
LeftoverInv ==
  /\ \A n \in visiting \ OnStack : \E p \in edges[n] : p \in visiting \ OnStack
  /\ cyclic \subseteq visiting \ OnStack

(* Every node that has been tried is finished, reported or being searched. *)
TriedInv ==
  /\ \A i \in 1 .. index - 1 :
       \/ trace[i].activation \in visited \cup cyclic
       \/ stack # <<>> /\ trace[i].activation = stack[1].node
  /\ verdict # "checking" => stack = <<>> /\ index > Len(trace)

TraceOK == Len(trace) \in Nat /\ DOMAIN trace = 1 .. Len(trace)

SearchInv ==
  TraceOK /\ VerifierTypeOK /\ VisitedInv /\ StackInv /\ LeftoverInv /\ TriedInv

-----------------------------------------------------------------------------
(* The parents build_message_edges finds are nodes.                        *)
LEMMA EdgesType == ASSUME NEW t PROVE Edges(t) \in [Nodes(t) -> SUBSET Nodes(t)]
  BY DEF Edges

LEMMA InitSearch == Init => SearchInv
  <1> SUFFICES ASSUME Init PROVE SearchInv
    OBVIOUS
  <1>1. TraceOK
    BY TracesAssumption DEF Init, TraceOK
  <1>2. edges \in [Nodes(trace) -> SUBSET Nodes(trace)]
    BY EdgesType DEF Init
  <1>3. VerifierTypeOK
    BY <1>1, <1>2 DEF Init, VerifierTypeOK, TraceOK
  <1>4. VisitedInv /\ StackInv /\ LeftoverInv /\ TriedInv
    BY DEF Init, VisitedInv, StackInv, LeftoverInv, TriedInv, OnStack
  <1> QED
    BY <1>1, <1>3, <1>4 DEF SearchInv

Frames == Seq([node : Nodes(trace), rest : SUBSET Nodes(trace)])

(* The stack after Append, after shrinking the top's rest, and after the   *)
(* top is popped, frame by frame.                                          *)
LEMMA Pushed ==
  ASSUME NEW F, NEW s \in Seq(F), NEW f \in F, NEW u, u = Append(s, f)
  PROVE  /\ u \in Seq(F) /\ u # <<>> /\ Len(u) = Len(s) + 1
         /\ \A i \in 1 .. Len(s) : u[i] = s[i]
         /\ u[Len(s) + 1] = f
  OBVIOUS

LEMMA Popped ==
  ASSUME NEW F, NEW s \in Seq(F), s # <<>>, NEW u, u = SubSeq(s, 1, Len(s) - 1)
  PROVE  /\ u \in Seq(F) /\ Len(u) = Len(s) - 1
         /\ \A i \in 1 .. Len(s) - 1 : u[i] = s[i]
  <1>1. Len(s) \in Nat /\ Len(s) >= 1
    OBVIOUS
  <1>2. \A i \in 1 .. Len(s) - 1 : s[i] \in F
    BY <1>1
  <1>3. 1 \in Int /\ Len(s) - 1 \in Int
    BY <1>1
  <1>4. /\ SubSeq(s, 1, Len(s) - 1) \in Seq(F)
        /\ Len(SubSeq(s, 1, Len(s) - 1)) =
             IF 1 <= Len(s) - 1 THEN Len(s) - 1 - 1 + 1 ELSE 0
        /\ \A i \in 1 .. Len(s) - 1 - 1 + 1 : SubSeq(s, 1, Len(s) - 1)[i] = s[1 + i - 1]
    <2> HIDE <1>1
    <2> QED BY <1>2, <1>3, SubSeqProperties
  <1>5. ASSUME NEW i \in 1 .. Len(s) - 1 PROVE SubSeq(s, 1, Len(s) - 1)[i] = s[i]
    <2>1. i \in 1 .. Len(s) - 1 - 1 + 1 /\ 1 + i - 1 = i
      BY <1>1
    <2> QED
      BY <1>4, <2>1
  <1>6. Len(SubSeq(s, 1, Len(s) - 1)) = Len(s) - 1
    <2> DEFINE k == Len(s)
               l == Len(SubSeq(s, 1, Len(s) - 1))
    <2>1. k \in Nat /\ k >= 1 /\ l = IF 1 <= k - 1 THEN k - 1 - 1 + 1 ELSE 0
      BY <1>1, <1>4
    <2> HIDE DEF k, l
    <2>2. l = k - 1
      BY <2>1
    <2> QED BY <2>2 DEF k, l
  <1> QED
    BY <1>4, <1>5, <1>6

LEMMA Narrowed ==
  ASSUME NEW N, NEW s \in Seq([node : N, rest : SUBSET N]), s # <<>>, NEW p, NEW u,
         u = [s EXCEPT ![Len(s)] =
                [node |-> s[Len(s)].node, rest |-> s[Len(s)].rest \ {p}]]
  PROVE  /\ u \in Seq([node : N, rest : SUBSET N]) /\ Len(u) = Len(s)
         /\ \A i \in 1 .. Len(s) - 1 : u[i] = s[i]
         /\ u[Len(s)].node = s[Len(s)].node
         /\ u[Len(s)].rest = s[Len(s)].rest \ {p}
  <1> DEFINE F == [node : N, rest : SUBSET N]
             f == [node |-> s[Len(s)].node, rest |-> s[Len(s)].rest \ {p}]
  <1>0. s \in Seq(F)
    OBVIOUS
  <1>1. Len(s) \in 1 .. Len(s) /\ s[Len(s)] \in F
    <2> HIDE DEF F
    <2> QED BY <1>0
  <1>2. f \in F
    BY <1>1
  <1>3. u = [s EXCEPT ![Len(s)] = f]
    OBVIOUS
  <1> HIDE DEF F
  <1>4. u \in Seq(F) /\ Len(u) = Len(s)
    BY <1>1, <1>2, <1>3 DEF F
  <1> QED
    BY <1>1, <1>2, <1>3, <1>4 DEF F

-----------------------------------------------------------------------------
(* The steps that leave stack, visiting and visited alone.                 *)
LEMMA SkipSearch == SearchInv /\ SkipNode => SearchInv'
  <1> SUFFICES ASSUME SearchInv, SkipNode PROVE SearchInv'
    OBVIOUS
  <1> USE DEF SearchInv
  <1>1. index \in DOMAIN trace /\ index' = index + 1 /\ index \in Nat
    BY DEF SkipNode, VerifierTypeOK, TraceOK
  <1>2. TraceOK' /\ VerifierTypeOK'
    BY <1>1 DEF SkipNode, VerifierTypeOK, TraceOK
  <1>3. VisitedInv' /\ StackInv' /\ LeftoverInv'
    BY DEF SkipNode, VisitedInv, StackInv, LeftoverInv, OnStack, Unfounded
  <1>4. TriedInv'
    <2>1. ASSUME NEW i \in 1 .. index PROVE trace[i].activation \in visited \cup cyclic
      <3>1. CASE i < index
        BY <3>1, <1>1 DEF SkipNode, TriedInv
      <3>2. CASE i = index /\ Node \in visited
        BY <3>2 DEF Node
      <3>3. CASE i = index /\ Node \notin visited
        <4>1. PICK j \in 1 .. index - 1 : trace[j].activation = Node
          BY <3>3 DEF SkipNode, Passed
        <4> QED
          BY <4>1, <3>3 DEF SkipNode, TriedInv, Node
      <3> QED
        BY <3>1, <3>2, <3>3, <1>1
    <2>2. 1 .. index' - 1 = 1 .. index
      BY <1>1
    <2> QED
      BY <2>1, <2>2 DEF SkipNode, TriedInv
  <1> QED
    BY <1>2, <1>3, <1>4

LEMMA LeftoverSearch == SearchInv /\ FindLeftover => SearchInv'
  <1> SUFFICES ASSUME SearchInv, FindLeftover PROVE SearchInv'
    OBVIOUS
  <1> USE DEF SearchInv
  <1>1. index \in DOMAIN trace /\ index' = index + 1 /\ index \in Nat
    BY DEF FindLeftover, VerifierTypeOK, TraceOK
  <1>2. Node \in Nodes(trace)
    BY <1>1 DEF Node, Nodes
  <1>3. TraceOK' /\ VerifierTypeOK'
    BY <1>1, <1>2 DEF FindLeftover, VerifierTypeOK, TraceOK
  <1>4. VisitedInv' /\ StackInv'
    BY DEF FindLeftover, VisitedInv, StackInv, OnStack, Unfounded
  <1>5. OnStack = {} /\ OnStack' = {}
    BY DEF FindLeftover, OnStack
  <1>6. LeftoverInv'
    BY <1>5 DEF FindLeftover, LeftoverInv
  <1>7. TriedInv'
    <2>1. ASSUME NEW i \in 1 .. index
          PROVE  trace[i].activation \in visited \cup cyclic'
      <3>1. CASE i < index
        BY <3>1, <1>1 DEF FindLeftover, TriedInv
      <3>2. CASE i = index
        BY <3>2 DEF FindLeftover, Node
      <3> QED
        BY <3>1, <3>2, <1>1
    <2>2. 1 .. index' - 1 = 1 .. index
      BY <1>1
    <2> QED
      BY <2>1, <2>2 DEF FindLeftover, TriedInv
  <1> QED
    BY <1>3, <1>4, <1>6, <1>7

(* A search begins: one frame with all of the node's parents to visit.     *)
LEMMA StartSearchStep == SearchInv /\ StartSearch => SearchInv'
  <1> SUFFICES ASSUME SearchInv, StartSearch PROVE SearchInv'
    OBVIOUS
  <1> USE DEF SearchInv
  <1>1. index \in DOMAIN trace /\ index' = index + 1 /\ index \in Nat
    BY DEF StartSearch, VerifierTypeOK, TraceOK
  <1>2. Node \in Nodes(trace) /\ edges[Node] \subseteq Nodes(trace)
    BY <1>1 DEF Node, Nodes, VerifierTypeOK
  <1>3. /\ stack = <<>> /\ stack' = <<[node |-> Node, rest |-> edges[Node]]>>
        /\ Len(stack') = 1 /\ stack'[1] = [node |-> Node, rest |-> edges[Node]]
    BY DEF StartSearch, Push
  <1>4. OnStack = {} /\ OnStack' = {Node}
    BY <1>3 DEF OnStack
  <1>5. TraceOK' /\ VerifierTypeOK'
    BY <1>1, <1>2, <1>3 DEF StartSearch, VerifierTypeOK, TraceOK
  <1>6. VisitedInv'
    BY DEF StartSearch, VisitedInv, Unfounded, Passed
  <1>7. StackInv'
    BY <1>3, <1>4 DEF StartSearch, StackInv
  <1>8. LeftoverInv'
    <2>1. visiting' \ OnStack' = visiting /\ visiting \ OnStack = visiting
      BY <1>4 DEF StartSearch
    <2> QED
      BY <2>1 DEF StartSearch, LeftoverInv
  <1>9. TriedInv'
    <2>1. ASSUME NEW i \in 1 .. index
          PROVE  trace[i].activation \in visited \cup cyclic \/ trace[i].activation = Node
      <3>1. CASE i < index
        BY <3>1, <1>1, <1>3 DEF TriedInv
      <3>2. CASE i = index
        BY <3>2 DEF Node
      <3> QED
        BY <3>1, <3>2, <1>1
    <2>2. 1 .. index' - 1 = 1 .. index /\ stack' # <<>> /\ stack'[1].node = Node
      BY <1>1, <1>3
    <2> QED
      BY <2>1, <2>2 DEF StartSearch, TriedInv
  <1> QED
    BY <1>5, <1>6, <1>7, <1>8, <1>9

(* What the steps inside a search share about the innermost call.          *)
LEMMA TopFrame ==
  ASSUME SearchInv, stack # <<>>
  PROVE  /\ Len(stack) \in Nat /\ Len(stack) >= 1 /\ Len(stack) \in 1 .. Len(stack)
         /\ 1 \in 1 .. Len(stack)
         /\ stack \in Frames
         /\ Top = stack[Len(stack)] /\ Top \in [node : Nodes(trace), rest : SUBSET Nodes(trace)]
         /\ verdict = "checking"
  <1> DEFINE F == [node : Nodes(trace), rest : SUBSET Nodes(trace)]
  <1>1. stack \in Seq(F) /\ stack \in Frames
    BY DEF SearchInv, VerifierTypeOK, Frames
  <1>2. verdict = "checking"
    BY DEF SearchInv, TriedInv
  <1> HIDE DEF F
  <1>3. Len(stack) \in Nat /\ Len(stack) >= 1 /\ stack[Len(stack)] \in F
    BY <1>1
  <1> QED
    BY <1>1, <1>2, <1>3 DEF Top, F

LEMMA PassParentStep == ASSUME NEW p PROVE SearchInv /\ PassParent(p) => SearchInv'
  <1> SUFFICES ASSUME SearchInv, PassParent(p) PROVE SearchInv'
    OBVIOUS
  <1> USE DEF SearchInv
  <1>1. /\ stack' \in Frames /\ Len(stack') = Len(stack)
        /\ \A i \in 1 .. Len(stack) - 1 : stack'[i] = stack[i]
        /\ stack'[Len(stack)].node = Top.node
        /\ stack'[Len(stack)].rest = Top.rest \ {p}
    BY TopFrame, Narrowed DEF PassParent, Drop, Frames
  <1>2. \A i \in 1 .. Len(stack) :
          stack'[i].node = stack[i].node /\ stack'[i].rest \subseteq stack[i].rest
    <2>1. ASSUME NEW i \in 1 .. Len(stack)
          PROVE  stack'[i].node = stack[i].node /\ stack'[i].rest \subseteq stack[i].rest
      <3>1. i \in 1 .. Len(stack) - 1 \/ i = Len(stack)
        BY TopFrame DEF PassParent
      <3> QED
        BY <1>1, <3>1 DEF Top
    <2> QED
      BY <2>1
  <1>3. OnStack' = OnStack
    BY <1>1, <1>2 DEF OnStack
  <1>4. TraceOK' /\ VerifierTypeOK'
    BY <1>1 DEF PassParent, VerifierTypeOK, TraceOK, Frames
  <1>5. VisitedInv' /\ LeftoverInv'
    BY <1>3 DEF PassParent, VisitedInv, LeftoverInv, Unfounded
  <1>6. StackInv'
    <2>1. OnStack' \subseteq visiting'
      BY <1>3 DEF PassParent, StackInv
    <2>2. \A i, j \in 1 .. Len(stack') : stack'[i].node = stack'[j].node => i = j
      BY <1>1, <1>2 DEF StackInv
    <2>3. ASSUME NEW i \in 1 .. Len(stack')
          PROVE  /\ stack'[i].rest \subseteq edges'[stack'[i].node]
                 /\ i < Len(stack') => stack'[i + 1].node \in edges'[stack'[i].node]
                 /\ \A q \in edges'[stack'[i].node] :
                      \/ q \in visited' \/ q \in stack'[i].rest
                      \/ i < Len(stack') /\ q = stack'[i + 1].node
      <3>1. i \in 1 .. Len(stack) /\ edges' = edges /\ visited' = visited
        BY <1>1 DEF PassParent
      <3>2. i < Len(stack) => i + 1 \in 1 .. Len(stack)
        BY <3>1, TopFrame DEF PassParent
      <3>3. ASSUME NEW q \in stack[i].rest PROVE q \in visited \/ q \in stack'[i].rest
        <4>1. i \in 1 .. Len(stack) - 1 \/ i = Len(stack)
          BY <3>1, TopFrame DEF PassParent
        <4> QED
          BY <4>1, <1>1, <3>3 DEF PassParent, Top
      <3> QED
        BY <3>1, <3>2, <3>3, <1>1, <1>2 DEF StackInv
    <2> QED
      BY <2>1, <2>2, <2>3 DEF StackInv
  <1>7. TriedInv'
    BY <1>1, <1>2, TopFrame DEF PassParent, TriedInv
  <1> QED
    BY <1>4, <1>5, <1>6, <1>7

(* A parent that is neither visited nor being visited: one more frame.     *)
LEMMA VisitParentStep ==
  ASSUME NEW p \in Nodes(trace) PROVE SearchInv /\ VisitParent(p) => SearchInv'
  <1> SUFFICES ASSUME SearchInv, VisitParent(p) PROVE SearchInv'
    OBVIOUS
  <1> USE DEF SearchInv
  <1> DEFINE k == Len(stack)
             f == [node |-> p, rest |-> edges[p]]
  <1>0. k \in Nat /\ k >= 1 /\ k \in 1 .. k /\ edges' = edges /\ visited' = visited
    BY TopFrame DEF VisitParent
  <1>1. /\ Drop(p) \in Frames /\ Len(Drop(p)) = k
        /\ \A i \in 1 .. k - 1 : Drop(p)[i] = stack[i]
        /\ Drop(p)[k].node = Top.node
        /\ Drop(p)[k].rest = Top.rest \ {p}
    BY TopFrame, Narrowed DEF VisitParent, Drop, Frames
  <1>2. f \in [node : Nodes(trace), rest : SUBSET Nodes(trace)]
    BY DEF VerifierTypeOK
  <1>3. /\ stack' \in Frames /\ stack' # <<>> /\ Len(stack') = k + 1
        /\ \A i \in 1 .. k : stack'[i] = Drop(p)[i]
        /\ stack'[k + 1] = f
    BY <1>1, <1>2, Pushed DEF VisitParent, Frames
  <1>4. \A i \in 1 .. k :
          /\ stack'[i].node = stack[i].node
          /\ stack'[i].rest \subseteq stack[i].rest
          /\ \A q \in stack[i].rest : q \in stack'[i].rest \/ (i = k /\ q = p)
    <2>1. ASSUME NEW i \in 1 .. k
          PROVE  /\ stack'[i].node = stack[i].node
                 /\ stack'[i].rest \subseteq stack[i].rest
                 /\ \A q \in stack[i].rest : q \in stack'[i].rest \/ (i = k /\ q = p)
      <3>1. i \in 1 .. k - 1 \/ i = k
        BY <1>0
      <3> QED
        BY <1>1, <1>3, <3>1 DEF Top
    <2> QED
      BY <2>1
  <1>5. OnStack' = OnStack \cup {p}
    <2>1. 1 .. k + 1 = (1 .. k) \cup {k + 1}
      BY <1>0
    <2> QED
      BY <2>1, <1>3, <1>4 DEF OnStack
  <1>6. p \notin visiting /\ p \notin visited /\ p \notin OnStack /\ p \in edges[stack[k].node]
    BY <1>0 DEF VisitParent, StackInv, Top
  <1>7. TraceOK' /\ VerifierTypeOK'
    BY <1>3 DEF VisitParent, VerifierTypeOK, TraceOK, Frames
  <1>8. VisitedInv'
    BY <1>6 DEF VisitParent, VisitedInv, Unfounded
  <1>9. LeftoverInv'
    <2>1. visiting' \ OnStack' = visiting \ OnStack
      BY <1>5, <1>6 DEF VisitParent
    <2> QED
      BY <2>1 DEF VisitParent, LeftoverInv
  <1>10. StackInv'
    <2>1. OnStack' \subseteq visiting'
      BY <1>5 DEF VisitParent, StackInv
    <2>2. ASSUME NEW i \in 1 .. Len(stack'), NEW j \in 1 .. Len(stack'),
                 stack'[i].node = stack'[j].node
          PROVE  i = j
      <3>1. (i \in 1 .. k \/ i = k + 1) /\ (j \in 1 .. k \/ j = k + 1)
        BY <1>0, <1>3
      <3>2. \A l \in 1 .. k : stack'[l].node \in OnStack
        BY <1>4 DEF OnStack
      <3> QED
        BY <3>1, <3>2, <2>2, <1>3, <1>4, <1>6 DEF StackInv
    <2>3. ASSUME NEW i \in 1 .. Len(stack')
          PROVE  /\ stack'[i].rest \subseteq edges'[stack'[i].node]
                 /\ i < Len(stack') => stack'[i + 1].node \in edges'[stack'[i].node]
                 /\ \A q \in edges'[stack'[i].node] :
                      \/ q \in visited' \/ q \in stack'[i].rest
                      \/ i < Len(stack') /\ q = stack'[i + 1].node
      <3>1. CASE i = k + 1
        BY <3>1, <1>0, <1>3
      <3>2. CASE i = k
        <4>1. stack'[i + 1].node = p /\ i < Len(stack')
          BY <3>2, <1>0, <1>3
        <4> QED
          BY <4>1, <3>2, <1>0, <1>4, <1>6 DEF StackInv
      <3>3. CASE i \in 1 .. k - 1
        <4>1. i \in 1 .. k /\ i + 1 \in 1 .. k /\ i < k /\ i # k /\ i < Len(stack')
          BY <3>3, <1>0, <1>3
        <4>2. stack'[i].node = stack[i].node /\ stack'[i].rest = stack[i].rest
          BY <4>1, <1>4
        <4>3. stack'[i + 1].node = stack[i + 1].node
          BY <4>1, <1>4
        <4> QED
          BY <4>1, <4>2, <4>3, <1>0 DEF StackInv
      <3> QED
        BY <3>1, <3>2, <3>3, <1>0, <1>3
    <2> QED
      BY <2>1, <2>2, <2>3 DEF StackInv
  <1>11. TriedInv'
    BY <1>0, <1>3, <1>4, TopFrame DEF VisitParent, TriedInv
  <1> QED
    BY <1>7, <1>8, <1>9, <1>10, <1>11

(* A hit: every call returns, and what they were visiting stays behind,    *)
(* each node with its successor on the stack, the last with the parent hit.*)
LEMMA FindCycleStep == ASSUME NEW p PROVE SearchInv /\ FindCycle(p) => SearchInv'
  <1> SUFFICES ASSUME SearchInv, FindCycle(p) PROVE SearchInv'
    OBVIOUS
  <1> USE DEF SearchInv
  <1> DEFINE k == Len(stack)
  <1>0. k \in Nat /\ k >= 1 /\ k \in 1 .. k /\ 1 \in 1 .. k /\ stack # <<>>
    BY TopFrame DEF FindCycle
  <1>1. stack' = <<>> /\ OnStack' = {} /\ visiting' = visiting /\ edges' = edges
    BY DEF FindCycle, OnStack
  <1>2. stack[1].node \in visiting
    BY <1>0 DEF StackInv, OnStack
  <1>3. TraceOK' /\ VerifierTypeOK'
    BY <1>1, <1>2 DEF FindCycle, VerifierTypeOK, TraceOK
  <1>4. VisitedInv' /\ StackInv'
    BY <1>1 DEF FindCycle, VisitedInv, StackInv, Unfounded
  <1>5. LeftoverInv'
    <2>1. ASSUME NEW n \in visiting PROVE \E q \in edges[n] : q \in visiting
      <3>1. CASE n \notin OnStack
        BY <3>1 DEF LeftoverInv
      <3>2. CASE n \in OnStack
        <4>1. PICK i \in 1 .. k : stack[i].node = n
          BY <3>2 DEF OnStack
        <4>2. CASE i = k
          BY <4>1, <4>2, <1>0 DEF FindCycle, Top, StackInv
        <4>3. CASE i # k
          <5>1. i < k /\ i + 1 \in 1 .. k
            BY <4>3, <1>0
          <5>2. stack[i + 1].node \in visiting
            BY <5>1 DEF StackInv, OnStack
          <5>3. stack[i + 1].node \in edges[n]
            BY <4>1, <5>1 DEF StackInv
          <5> QED
            BY <5>2, <5>3
        <4> QED
          BY <4>2, <4>3
      <3> QED
        BY <3>1, <3>2
    <2>2. cyclic' \subseteq visiting
      BY <1>2 DEF FindCycle, LeftoverInv
    <2> QED
      BY <1>1, <2>1, <2>2 DEF LeftoverInv
  <1>6. TriedInv'
    BY <1>0, TopFrame DEF FindCycle, TriedInv
  <1> QED
    BY <1>3, <1>4, <1>5, <1>6

(* A call that has visited all parents: its node is finished, and a set    *)
(* that lives on its own parents cannot contain it.                        *)
LEMMA ReturnFalseStep == SearchInv /\ ReturnFalse => SearchInv'
  <1> SUFFICES ASSUME SearchInv, ReturnFalse PROVE SearchInv'
    OBVIOUS
  <1> USE DEF SearchInv
  <1> DEFINE k == Len(stack)
             n == Top.node
  <1>0. /\ k \in Nat /\ k >= 1 /\ k \in 1 .. k /\ 1 \in 1 .. k /\ stack # <<>>
        /\ n = stack[k].node /\ Top.rest = {} /\ n \in Nodes(trace)
        /\ stack \in Frames
    BY TopFrame DEF ReturnFalse
  <1>1. /\ stack' \in Frames /\ Len(stack') = k - 1
        /\ \A i \in 1 .. k - 1 : stack'[i] = stack[i]
    <2> DEFINE F == [node : Nodes(trace), rest : SUBSET Nodes(trace)]
    <2>1. stack \in Seq(F) /\ stack # <<>>
      BY <1>0 DEF Frames
    <2>2. stack' = SubSeq(stack, 1, Len(stack) - 1)
      BY DEF ReturnFalse
    <2> HIDE DEF F
    <2>3. /\ stack' \in Seq(F) /\ Len(stack') = Len(stack) - 1
          /\ \A i \in 1 .. Len(stack) - 1 : stack'[i] = stack[i]
      BY <2>1, <2>2, Popped
    <2> QED
      BY <2>3 DEF F, Frames
  <1>2. /\ edges' = edges /\ visiting' = visiting \ {n} /\ visited' = visited \cup {n}
        /\ trace' = trace /\ cyclic' = cyclic
    BY DEF ReturnFalse
  <1>3. OnStack' = OnStack \ {n}
    <2>1. 1 .. k = (1 .. k - 1) \cup {k} /\ k \notin 1 .. k - 1
      BY <1>0
    <2>2. OnStack' = {stack[i].node : i \in 1 .. k - 1}
      BY <1>1 DEF OnStack
    <2>3. \A i \in 1 .. k - 1 : stack[i].node # n
      BY <2>1, <1>0 DEF StackInv
    <2> QED
      BY <2>1, <2>2, <2>3, <1>0 DEF OnStack
  <1>4. edges[n] \subseteq visited
    BY <1>0 DEF StackInv, Top
  <1>5. n \in visiting /\ n \in OnStack
    BY <1>0 DEF StackInv, OnStack
  <1>6. TraceOK' /\ VerifierTypeOK'
    BY <1>0, <1>1 DEF ReturnFalse, VerifierTypeOK, TraceOK, Frames
  <1>7. VisitedInv'
    <2>1. visited' \cap visiting' = {} /\ \A q \in visited' : edges'[q] \subseteq visited'
      BY <1>2, <1>4 DEF VisitedInv
    <2>2. ASSUME NEW S \in SUBSET Nodes(trace), Unfounded(S) PROVE S \cap visited' = {}
      BY <2>2, <1>2, <1>4 DEF VisitedInv, Unfounded
    <2> QED
      BY <2>1, <2>2, <1>2 DEF VisitedInv, Unfounded
  <1>8. LeftoverInv'
    <2>1. visiting' \ OnStack' = visiting \ OnStack
      BY <1>2, <1>3, <1>5
    <2> QED
      BY <2>1, <1>2 DEF LeftoverInv
  <1>9. StackInv'
    <2>1. OnStack' \subseteq visiting'
      BY <1>2, <1>3 DEF StackInv
    <2>2. ASSUME NEW i \in 1 .. Len(stack')
          PROVE  /\ i \in 1 .. k /\ i < k /\ i + 1 \in 1 .. k
                 /\ stack'[i] = stack[i]
                 /\ i < Len(stack') => stack'[i + 1] = stack[i + 1]
                 /\ i >= Len(stack') => i + 1 = k
      BY <1>0, <1>1
    <2>3. \A i, j \in 1 .. Len(stack') : stack'[i].node = stack'[j].node => i = j
      BY <2>2 DEF StackInv
    <2>4. ASSUME NEW i \in 1 .. Len(stack')
          PROVE  /\ stack'[i].rest \subseteq edges'[stack'[i].node]
                 /\ i < Len(stack') => stack'[i + 1].node \in edges'[stack'[i].node]
                 /\ \A q \in edges'[stack'[i].node] :
                      \/ q \in visited' \/ q \in stack'[i].rest
                      \/ i < Len(stack') /\ q = stack'[i + 1].node
      <3>1. CASE i < Len(stack')
        BY <3>1, <2>2, <1>2 DEF StackInv
      <3>2. CASE ~ (i < Len(stack'))
        <4>1. i + 1 = k /\ stack'[i] = stack[i] /\ i \in 1 .. k
          BY <3>2, <2>2, <1>0, <1>1
        <4>2. /\ stack[i].rest \subseteq edges[stack[i].node]
              /\ \A q \in edges[stack[i].node] :
                   q \in visited \/ q \in stack[i].rest \/ q = stack[k].node
          BY <4>1 DEF StackInv
        <4> QED
          BY <3>2, <4>1, <4>2, <1>0, <1>2
      <3> QED
        BY <3>1, <3>2
    <2> QED
      BY <2>1, <2>3, <2>4 DEF StackInv
  <1>10. TriedInv'
    <2>1. ASSUME NEW i \in 1 .. index - 1
          PROVE  \/ trace[i].activation \in visited' \cup cyclic'
                 \/ stack' # <<>> /\ trace[i].activation = stack'[1].node
      <3>1. CASE k = 1
        BY <3>1, <1>0, <1>2 DEF TriedInv
      <3>2. CASE k # 1
        <4>1. 1 \in 1 .. k - 1 /\ stack' # <<>>
          BY <3>2, <1>0, <1>1
        <4> QED
          BY <4>1, <1>1, <1>2 DEF TriedInv
      <3> QED
        BY <3>1, <3>2
    <2>2. verdict' = "checking" /\ index' = index
      BY TopFrame DEF ReturnFalse
    <2> QED
      BY <2>1, <2>2, <1>2 DEF TriedInv
  <1> QED
    BY <1>6, <1>7, <1>8, <1>9, <1>10

(* The strengthened invariant of the search.                               *)
LEMMA SearchStep == SearchInv /\ [Next]_vars => SearchInv'
  <1> SUFFICES ASSUME SearchInv, [Next]_vars PROVE SearchInv'
    OBVIOUS
  <1>1. CASE SkipNode
    BY <1>1, SkipSearch
  <1>2. CASE FindLeftover
    BY <1>2, LeftoverSearch
  <1>3. CASE StartSearch
    BY <1>3, StartSearchStep
  <1>4. ASSUME NEW p \in Nodes(trace), PassParent(p) \/ VisitParent(p) \/ FindCycle(p)
        PROVE  SearchInv'
    BY <1>4, PassParentStep, VisitParentStep, FindCycleStep
  <1>5. CASE ReturnFalse
    BY <1>5, ReturnFalseStep
  <1>6. CASE ReturnVerdict
    <2>1. TraceOK' /\ VerifierTypeOK'
      BY <1>6 DEF SearchInv, ReturnVerdict, VerifierTypeOK, TraceOK
    <2>2. VisitedInv' /\ StackInv' /\ LeftoverInv' /\ TriedInv'
      BY <1>6 DEF SearchInv, ReturnVerdict, VisitedInv, StackInv, LeftoverInv, TriedInv,
                  OnStack, Unfounded
    <2> QED
      BY <2>1, <2>2 DEF SearchInv
  <1>7. CASE UNCHANGED vars
    BY <1>7 DEF SearchInv, vars, TraceOK, VerifierTypeOK, VisitedInv, StackInv,
                LeftoverInv, TriedInv, OnStack, Unfounded
  <1> QED
    BY <1>1, <1>2, <1>3, <1>4, <1>5, <1>6, <1>7 DEF Next, Done

THEOREM SearchInvariance == Spec => []SearchInv
  <1> QED
    BY InitSearch, SearchStep, PTL DEF Spec

(* The search keeps its types, on every trace.                             *)
THEOREM SearchTypes == Spec => []VerifierTypeOK
  <1>1. SearchInv => VerifierTypeOK
    BY DEF SearchInv
  <1> QED
    BY <1>1, SearchInvariance, PTL

(* _check_cycles reports exactly the nodes whose parents lead into a cycle, *)
(* for traces of every length and shape.                                   *)
THEOREM ReportsExactlyTheCycles == Spec => []CyclesExact
  <1>1. SearchInv => CyclesExact
    <2> SUFFICES ASSUME SearchInv, verdict # "checking", NEW n \in Nodes(trace)
                 PROVE  n \in cyclic <=>
                          \E S \in SUBSET Nodes(trace) : n \in S /\ Unfounded(S)
      BY DEF CyclesExact
    <2> USE DEF SearchInv
    <2>1. stack = <<>> /\ OnStack = {} /\ index > Len(trace) /\ Len(trace) \in Nat
      BY DEF TriedInv, OnStack, TraceOK
    <2>2. n \in visited \cup cyclic
      <3>1. PICK i \in 1 .. Len(trace) : trace[i].activation = n
        BY DEF Nodes, TraceOK
      <3>2. i \in 1 .. index - 1
        BY <2>1 DEF VerifierTypeOK
      <3> QED
        BY <2>1, <3>1, <3>2 DEF TriedInv
    <2>3. Unfounded(visiting) /\ visiting \in SUBSET Nodes(trace) /\ cyclic \subseteq visiting
      BY <2>1 DEF LeftoverInv, Unfounded, VerifierTypeOK
    <2>4. ASSUME NEW S \in SUBSET Nodes(trace), n \in S, Unfounded(S) PROVE n \in cyclic
      BY <2>2, <2>4 DEF VisitedInv
    <2> QED
      BY <2>3, <2>4
  <1> QED
    BY <1>1, SearchInvariance, PTL

-----------------------------------------------------------------------------
(* On a trace in order nothing is ever left in visiting but the one node   *)
(* whose parents are all visited already.                                  *)
FlatInv ==
  InOrder =>
    /\ Len(stack) <= 1 /\ cyclic = {} /\ visiting \subseteq OnStack
    /\ stack # <<>> =>
         index > 1 /\ index - 1 \in DOMAIN trace /\ stack[1].node = trace[index - 1].activation

LEMMA OneFrame ==
  ASSUME SearchInv, FlatInv, InOrder, stack # <<>>
  PROVE  Len(stack) = 1 /\ Top = stack[1] /\ OnStack = {stack[1].node}
  <1>1. Len(stack) = 1
    <2> DEFINE k == Len(stack)
    <2>1. k <= 1 /\ k >= 1 /\ k \in Nat
      BY TopFrame DEF FlatInv
    <2> HIDE DEF k
    <2>2. k = 1
      BY <2>1
    <2> QED
      BY <2>2 DEF k
  <1>2. 1 .. Len(stack) = {1}
    BY <1>1
  <1> QED
    BY <1>1, <1>2 DEF Top, OnStack

LEMMA FlatStep == SearchInv /\ FlatInv /\ [Next]_vars => FlatInv'
  <1> SUFFICES ASSUME SearchInv, FlatInv, [Next]_vars, InOrder'
               PROVE  FlatInv'
    BY DEF FlatInv
  <1>0. InOrder /\ trace' = trace /\ edges' = edges
    BY DEF InOrder, Next, vars, SkipNode, FindLeftover, StartSearch, PassParent, VisitParent,
           FindCycle, ReturnFalse, ReturnVerdict, Done
  <1>1. CASE SkipNode
    BY <1>0, <1>1 DEF FlatInv, SkipNode, OnStack
  <1>2. CASE FindLeftover
    BY <1>0, <1>2 DEF FlatInv, FindLeftover, OnStack
  <1>3. CASE StartSearch
    <2>1. index \in DOMAIN trace /\ index \in Nat /\ index >= 1 /\ index' = index + 1
      BY <1>3 DEF StartSearch, SearchInv, VerifierTypeOK, TraceOK
    <2>2. /\ stack = <<>> /\ stack' = <<[node |-> Node, rest |-> edges[Node]]>>
          /\ Len(stack') = 1 /\ stack'[1].node = Node
      BY <1>3 DEF StartSearch, Push
    <2>3. OnStack = {} /\ OnStack' = {Node}
      BY <2>2 DEF OnStack
    <2> QED
      BY <1>0, <1>3, <2>1, <2>2, <2>3 DEF FlatInv, StartSearch, Node
  <1>4. ASSUME NEW p \in Nodes(trace), stack # <<>>, p \in Top.rest
        PROVE  p \in visited /\ p \notin visiting
    <2>1. /\ Len(stack) = 1 /\ Top = stack[1] /\ 1 \in 1 .. Len(stack)
          /\ OnStack = {stack[1].node} /\ cyclic = {} /\ index > 1 /\ index - 1 \in DOMAIN trace
          /\ stack[1].node = trace[index - 1].activation /\ index \in Nat
          /\ TraceOK /\ visiting \subseteq OnStack
      BY <1>0, <1>4, TopFrame, OneFrame DEF FlatInv, SearchInv, VerifierTypeOK
    <2>2. p \in edges[trace[index - 1].activation]
      BY <1>4, <2>1 DEF SearchInv, StackInv
    <2>3. PICK j \in DOMAIN trace : trace[j].activation = p
      BY DEF Nodes
    <2>4. j < index - 1 /\ j \in 1 .. index - 1
      BY <1>0, <2>1, <2>2, <2>3 DEF InOrder, TraceOK
    <2>5. p # stack[1].node
      <3> SUFFICES ASSUME p = stack[1].node PROVE FALSE
        OBVIOUS
      <3>1. index - 1 < index - 1
        BY <1>0, <2>1, <2>2 DEF InOrder
      <3> QED
        BY <3>1, <2>1
    <2>6. p \in visited
      BY <2>1, <2>3, <2>4, <2>5 DEF SearchInv, TriedInv
    <2> QED
      BY <2>1, <2>5, <2>6
  <1>5. ASSUME NEW p \in Nodes(trace), PassParent(p) PROVE FlatInv'
    <2>1. /\ Len(stack') = Len(stack)
          /\ \A i \in 1 .. Len(stack) - 1 : stack'[i] = stack[i]
          /\ stack'[Len(stack)].node = Top.node
      BY <1>5, TopFrame, Narrowed DEF PassParent, Drop, Frames
    <2>2. Len(stack) = 1 /\ stack # <<>> /\ Top = stack[1]
      BY <1>0, <1>5, TopFrame DEF FlatInv, PassParent, Top
    <2>3. OnStack' = OnStack
      BY <2>1, <2>2 DEF OnStack
    <2> QED
      BY <1>0, <1>5, <2>1, <2>2, <2>3 DEF FlatInv, PassParent
  <1>6. ASSUME NEW p \in Nodes(trace), VisitParent(p) \/ FindCycle(p) PROVE FlatInv'
    BY <1>4, <1>6 DEF VisitParent, FindCycle
  <1>7. CASE ReturnFalse
    <2>1. Len(stack) = 1 /\ stack # <<>> /\ Top = stack[1] /\ OnStack = {Top.node}
      BY <1>0, <1>7, OneFrame DEF ReturnFalse
    <2>2. Len(stack') = 0 /\ stack' = <<>>
      BY <1>7, <2>1, TopFrame, Popped DEF ReturnFalse, Frames
    <2> QED
      BY <1>0, <1>7, <2>1, <2>2 DEF FlatInv, ReturnFalse
  <1>8. CASE ReturnVerdict
    BY <1>0, <1>8 DEF FlatInv, ReturnVerdict, OnStack
  <1>9. CASE UNCHANGED vars
    BY <1>0, <1>9 DEF FlatInv, vars, OnStack
  <1> QED
    BY <1>1, <1>2, <1>3, <1>5, <1>6, <1>7, <1>8, <1>9 DEF Next, Done

(* On a trace whose messages are read after they were sent dfs never calls *)
(* itself into an unvisited node: its depth is one for runs of any length. *)
THEOREM NoRecursionInOrder == Spec => []InOrderNeedsNoStack
  <1>1. Init => FlatInv
    BY DEF Init, FlatInv, OnStack
  <1>2. FlatInv => InOrderNeedsNoStack
    BY DEF FlatInv, InOrderNeedsNoStack
  <1> QED
    BY <1>1, <1>2, FlatStep, SearchInvariance, PTL DEF Spec
-----------------------------------------------------------------------------
(* The verdict.  visited grows by one node whose parents it holds already: *)
(* the order in which the calls of dfs return is an order in which the     *)
(* steps could have happened.                                              *)

(* rank numbers S so that each node comes after its parents.               *)
Ranks(rank, k, S) ==
  /\ rank \in [S -> 1 .. k]
  /\ \A n, q \in S : rank[n] = rank[q] => n = q
  /\ \A r \in 1 .. k : \E n \in S : rank[n] = r
  /\ \A n \in S : \A q \in edges[n] : q \in S /\ rank[q] < rank[n]

RankInv == \E k \in Nat : \E rank : Ranks(rank, k, visited)

(* A node is added to a numbered set that holds its parents.               *)
LEMMA RankOneMore ==
  ASSUME NEW S, NEW n, n \notin S, NEW E \in [S \cup {n} -> SUBSET S], E = [q \in S \cup {n} |-> edges[q]],
         NEW k \in Nat, NEW rank, Ranks(rank, k, S)
  PROVE  \E longer : Ranks(longer, k + 1, S \cup {n})
  <1> DEFINE longer == [q \in S \cup {n} |-> IF q = n THEN k + 1 ELSE rank[q]]
  <1>1. /\ longer[n] = k + 1 /\ \A q \in S : longer[q] = rank[q] /\ rank[q] \in 1 .. k
        /\ DOMAIN longer = S \cup {n}
    BY DEF Ranks
  <1>2. longer \in [S \cup {n} -> 1 .. k + 1]
    BY DEF Ranks
  <1> HIDE DEF longer
  <1>3. \A a, b \in S \cup {n} : longer[a] = longer[b] => a = b
    BY <1>1 DEF Ranks
  <1>4. ASSUME NEW r \in 1 .. k + 1 PROVE \E a \in S \cup {n} : longer[a] = r
    <2>1. CASE r = k + 1
      BY <1>1, <2>1
    <2>2. CASE r # k + 1
      <3>1. r \in 1 .. k
        BY <2>2
      <3> QED
        BY <1>1, <3>1 DEF Ranks
    <2> QED
      BY <2>1, <2>2
  <1>5. ASSUME NEW a \in S \cup {n}, NEW q \in edges[a]
        PROVE  q \in S /\ longer[q] < longer[a]
    <2>1. CASE a = n
      <3>1. q \in S
        BY <2>1
      <3> QED
        BY <1>1, <2>1, <3>1
    <2>2. CASE a # n
      BY <1>1, <2>2 DEF Ranks
    <2> QED
      BY <2>1, <2>2
  <1> QED
    BY <1>2, <1>3, <1>4, <1>5 DEF Ranks

LEMMA RankStep == ASSUME SearchInv, RankInv, [Next]_vars PROVE RankInv'
  <1>1. CASE UNCHANGED <<visited, edges>>
    BY <1>1 DEF RankInv, Ranks
  <1>2. CASE ReturnFalse
    <2> DEFINE n == Top.node
    <2>1. n \in visiting /\ edges[n] \subseteq visited /\ visited' = visited \cup {n} /\ edges' = edges
      <3>1. /\ Len(stack) \in 1 .. Len(stack) /\ Top = stack[Len(stack)]
            /\ Top.rest = {} /\ Len(stack) \in Nat
        BY <1>2, TopFrame DEF ReturnFalse
      <3>2. n \in OnStack
        BY <3>1 DEF OnStack
      <3>3. edges[n] \subseteq visited
        BY <3>1 DEF SearchInv, StackInv
      <3> QED
        BY <1>2, <3>2, <3>3 DEF ReturnFalse, SearchInv, StackInv
    <2> HIDE DEF n
    <2>2. n \notin visited /\ \A q \in visited : edges[q] \subseteq visited
      BY <2>1 DEF SearchInv, VisitedInv
    <2>3. PICK k \in Nat : \E rank : Ranks(rank, k, visited)
      BY DEF RankInv
    <2> DEFINE E == [q \in visited \cup {n} |-> edges[q]]
    <2>4. E \in [visited \cup {n} -> SUBSET visited]
      BY <2>1, <2>2
    <2>5. \E longer : Ranks(longer, k + 1, visited \cup {n})
      BY <2>2, <2>3, <2>4, RankOneMore
    <2> QED
      BY <2>1, <2>5 DEF RankInv, Ranks
  <1> QED
    BY <1>1, <1>2 DEF Next, vars, SkipNode, FindLeftover, StartSearch, PassParent, VisitParent,
                      FindCycle, ReturnVerdict, Done

(* What the search starts from stays, and the verdict is what was found.   *)
VerdictInv ==
  /\ edges = Edges(trace)
  /\ \A i \in Commits(trace) : trace[i].read \in Int
  /\ verdict = "accepted" => NoViolation

LEMMA VerdictStep == ASSUME SearchInv, VerdictInv, [Next]_vars PROVE VerdictInv'
  <1>1. CASE verdict = "checking" /\ verdict' = verdict /\ UNCHANGED <<trace, edges>>
    BY <1>1 DEF VerdictInv
  <1>2. CASE ReturnVerdict
    BY <1>2 DEF ReturnVerdict, VerdictInv, NoViolation
  <1>3. CASE UNCHANGED vars
    BY <1>3 DEF vars, VerdictInv, NoViolation
  <1> QED
    BY <1>1, <1>2, <1>3, TopFrame
       DEF Next, vars, SkipNode, FindLeftover, StartSearch, PassParent, VisitParent,
           FindCycle, ReturnFalse, Done

LEMMA VerdictInvariance == Spec => [](RankInv /\ VerdictInv)
  <1>1. Init => RankInv
    <2> SUFFICES ASSUME Init PROVE RankInv
      OBVIOUS
    <2>1. visited = {} /\ 0 \in Nat /\ 1 .. 0 = {}
      BY DEF Init
    <2>2. Ranks([n \in {} |-> 0], 0, visited)
      BY <2>1 DEF Ranks
    <2> QED
      BY <2>1, <2>2 DEF RankInv
  <1>2. Init => VerdictInv
    BY TracesAssumption DEF Init, VerdictInv
  <1>3. SearchInv /\ RankInv /\ [Next]_vars => RankInv'
    BY RankStep
  <1>4. SearchInv /\ VerdictInv /\ [Next]_vars => VerdictInv'
    BY VerdictStep
  <1> QED
    BY <1>1, <1>2, <1>3, <1>4, SearchInvariance, PTL DEF Spec

(* The versions that one agent read and wrote in a trace that verify       *)
(* accepts do not fork, whatever the trace.                                *)
THEOREM AcceptedVersionsAreChains == Spec => []NoForkedHistory
  <1>1. SearchInv /\ VerdictInv => NoForkedHistory
    <2> SUFFICES ASSUME SearchInv, VerdictInv, verdict = "accepted",
                        NEW i \in Commits(trace), NEW j \in Commits(trace),
                        i # j, trace[i].agent = trace[j].agent
                 PROVE  /\ trace[i].read # trace[j].read /\ trace[i].written # trace[j].written
                        /\ trace[i].read < trace[j].read => trace[i].written <= trace[j].read
      BY DEF NoForkedHistory
    <2>1. /\ trace[i].read \in Int /\ trace[j].read \in Int
          /\ i \in Nat /\ j \in Nat
      BY DEF VerdictInv, Commits, SearchInv, TraceOK
    <2>2. \A h \in Commits(trace) :
            /\ trace[h].written = trace[h].read + 1
            /\ \A k \in Commits(trace) :
                 k < h /\ trace[k].agent = trace[h].agent => trace[k].read # trace[h].read
      BY DEF VerdictInv, NoViolation, StaleOrConflict
    <2> QED
      BY <2>1, <2>2
  <1> QED
    BY <1>1, SearchInvariance, VerdictInvariance, PTL
-----------------------------------------------------------------------------
(* Without repeated ids a node is a record, and an edge leads from the     *)
(* record that reads a message to the only one that sends it.              *)

Unrepeated == Duplicates(trace) = [activations |-> {}, messages |-> {}]

LEMMA OneRecordEach ==
  ASSUME Unrepeated
  PROVE  /\ \A i, j \in DOMAIN trace : trace[i].activation = trace[j].activation => i = j
         /\ \A i, j \in DOMAIN trace : \A msg \in trace[i].sent : msg \in trace[j].sent => i = j
  <1> DEFINE A == {trace[i].activation : i \in
                     {j \in DOMAIN trace : \E k \in DOMAIN trace \ {j} :
                        trace[k].activation = trace[j].activation}}
             M == UNION {trace[p[1]].sent \cap trace[p[2]].sent :
                           p \in {q \in (DOMAIN trace) \X (DOMAIN trace) : q[1] # q[2]}}
  <1>1. A = {} /\ M = {}
    <2>1. Duplicates(trace) = [activations |-> A, messages |-> M]
      BY DEF Duplicates
    <2> HIDE DEF A, M
    <2> QED
      BY <2>1 DEF Unrepeated
  <1>2. \A i, j \in DOMAIN trace : trace[i].activation = trace[j].activation => i = j
    BY <1>1
  <1>3. ASSUME NEW i \in DOMAIN trace, NEW j \in DOMAIN trace, i # j,
               NEW msg \in trace[i].sent, msg \in trace[j].sent
        PROVE  FALSE
    <2> DEFINE p == <<i, j>>
    <2>1. p \in {q \in (DOMAIN trace) \X (DOMAIN trace) : q[1] # q[2]}
      BY <1>3
    <2>2. msg \in trace[p[1]].sent \cap trace[p[2]].sent
      BY <1>3
    <2>3. msg \in M
      BY <2>1, <2>2
    <2> QED
      BY <1>1, <2>3
  <1> QED
    BY <1>2, <1>3

LEMMA EdgeIsMessage ==
  ASSUME TraceOK, Unrepeated, edges = Edges(trace), NEW i \in DOMAIN trace, NEW j \in DOMAIN trace
  PROVE  trace[i].activation \in edges[trace[j].activation]
           <=> \E msg \in trace[j].parents : msg \in trace[i].sent
  <1>1. trace[i].activation \in Nodes(trace) /\ trace[j].activation \in Nodes(trace)
    BY DEF Nodes
  <1>2. trace[i].activation \in edges[trace[j].activation]
          <=> \E h, r \in DOMAIN trace :
                /\ trace[r].activation = trace[j].activation
                /\ trace[h].activation = trace[i].activation
                /\ \E msg \in trace[r].parents : LastSends(trace, h, msg)
    BY <1>1 DEF Edges
  <1>3. trace[i].activation \in edges[trace[j].activation]
          <=> \E msg \in trace[j].parents : LastSends(trace, i, msg)
    BY <1>2, OneRecordEach
  <1>4. \A msg : msg \in trace[i].sent => LastSends(trace, i, msg)
    <2> SUFFICES ASSUME NEW msg, msg \in trace[i].sent, NEW h \in DOMAIN trace,
                        msg \in trace[h].sent
                 PROVE  h <= i
      BY DEF LastSends
    <2>1. h = i /\ i \in Int
      BY OneRecordEach DEF TraceOK
    <2> QED
      BY <2>1
  <1> QED
    BY <1>3, <1>4 DEF LastSends

(* A trace that can be replayed has no unfounded set: its earliest record  *)
(* would have a parent in the set that is earlier still.                   *)
LEMMA ReplayableIsFounded ==
  ASSUME TraceOK, Unrepeated, edges = Edges(trace), Replayable,
         NEW S \in SUBSET Nodes(trace), Unfounded(S)
  PROVE  S = {}
  <1> SUFFICES ASSUME S # {} PROVE FALSE
    OBVIOUS
  <1>1. PICK place \in Bijection(DOMAIN trace, DOMAIN trace) :
          \A j \in DOMAIN trace : \A msg \in trace[j].parents :
            \E i \in DOMAIN trace : msg \in trace[i].sent /\ place[i] < place[j]
    BY DEF Replayable
  <1> DEFINE P == {i \in DOMAIN trace : trace[i].activation \in S}
             Taken(r) == \E i \in P : place[i] = r
  <1>2. /\ P # {} /\ P \subseteq DOMAIN trace
        /\ \A i \in P : place[i] \in Nat
    <2>1. place \in [DOMAIN trace -> DOMAIN trace]
      BY <1>1, Fun_BijectionProperties
    <2>2. \A i \in DOMAIN trace : place[i] \in 1 .. Len(trace) /\ Len(trace) \in Nat
      BY <2>1 DEF TraceOK
    <2>3. \A i \in DOMAIN trace : place[i] \in Nat
      BY <2>2
    <2> QED
      BY <2>3 DEF Nodes
  <1>3. PICK i \in P : \A j \in P : place[i] <= place[j]
    <2> DEFINE R == {place[i] : i \in P}
    <2>1. R # {} /\ R \subseteq Nat
      BY <1>2
    <2>2. PICK r \in R : \A q \in R : r <= q
      <3> DEFINE Less == OpToRel(<, Nat)
      <3>1. IsWellFoundedOn(Less, Nat)
        BY NatLessThanWellFounded
      <3>2. \A q, r \in Nat : q < r => <<q, r>> \in Less
        BY DEF OpToRel
      <3> HIDE DEF R, Less
      <3>3. PICK r \in R : \A q \in R : ~ (<<q, r>> \in Less)
        BY <2>1, <3>1, WFMin
      <3>4. ASSUME NEW q \in R PROVE r <= q
        <4>1. q \in Nat /\ r \in Nat /\ ~ (q < r)
          BY <2>1, <3>2, <3>3
        <4> QED
          BY <4>1
      <3> QED
        BY <3>4
    <2> QED
      BY <2>2
  <1>4. PICK p \in S : p \in edges[trace[i].activation]
    BY <1>3 DEF Unfounded
  <1>5. PICK h \in DOMAIN trace : trace[h].activation = p
    BY <1>4 DEF Nodes
  <1>6. PICK msg \in trace[i].parents : msg \in trace[h].sent
    BY <1>2, <1>3, <1>4, <1>5, EdgeIsMessage
  <1>7. PICK g \in DOMAIN trace : msg \in trace[g].sent /\ place[g] < place[i]
    BY <1>1, <1>2, <1>3, <1>6
  <1>8. g = h
    BY <1>6, <1>7, OneRecordEach
  <1>9. h \in P
    BY <1>4, <1>5
  <1> QED
    BY <1>2, <1>3, <1>7, <1>8, <1>9

(* A numbering of all nodes is an order in which to replay the trace.      *)
LEMMA RanksReplay ==
  ASSUME TraceOK, Unrepeated, edges = Edges(trace), MissingParents(trace) = {},
         NEW k \in Nat, NEW rank, Ranks(rank, k, Nodes(trace))
  PROVE  Replayable
  <1> DEFINE D == DOMAIN trace
             place == [i \in D |-> rank[trace[i].activation]]
  <1>1. \A i \in D : trace[i].activation \in Nodes(trace) /\ rank[trace[i].activation] \in 1 .. k
    BY DEF Nodes, Ranks
  <1>2. place \in Bijection(D, 1 .. k)
    <2>1. place \in [D -> 1 .. k]
      BY <1>1
    <2>2. \A i, j \in D : place[i] = place[j] => i = j
      BY <1>1, OneRecordEach DEF Ranks
    <2>3. \A r \in 1 .. k : \E i \in D : place[i] = r
      BY DEF Ranks, Nodes
    <2> HIDE DEF place, D
    <2> QED
      BY <2>1, <2>2, <2>3, Fun_IsBij
  <1>3. \A j \in D : \A msg \in trace[j].parents :
          \E i \in D : msg \in trace[i].sent /\ place[i] < place[j]
    <2> SUFFICES ASSUME NEW j \in D, NEW msg \in trace[j].parents
                 PROVE  \E i \in D : msg \in trace[i].sent /\ place[i] < place[j]
      OBVIOUS
    <2>1. PICK i \in D : msg \in trace[i].sent
      BY DEF MissingParents, Produced
    <2>2. trace[i].activation \in edges[trace[j].activation]
      BY <2>1, EdgeIsMessage
    <2>3. rank[trace[i].activation] < rank[trace[j].activation]
      BY <1>1, <2>2 DEF Ranks
    <2> QED
      BY <2>1, <2>3
  <1>4. D = 1 .. k
    <2>1. D = 1 .. Len(trace) /\ Len(trace) \in Nat
      BY DEF TraceOK
    <2>2. IsFiniteSet(D) /\ Cardinality(D) = Len(trace)
      <3> DEFINE l == Len(trace)
      <3>1. l \in Nat /\ D = 1 .. l
        BY <2>1
      <3> HIDE DEF l, D
      <3>2. IsFiniteSet(1 .. l) /\ Cardinality(1 .. l) = l
        BY <3>1, FS_Interval
      <3> QED
        BY <3>1, <3>2 DEF l
    <2>3. ExistsBijection(D, 1 .. k)
      BY <1>2 DEF ExistsBijection
    <2>4. Cardinality(1 .. k) = Cardinality(D)
      BY <2>2, <2>3, FS_Bijection
    <2>5. Cardinality(1 .. k) = k
      BY FS_Interval
    <2> QED
      BY <2>1, <2>2, <2>4, <2>5
  <1> HIDE DEF place
  <1> QED
    BY <1>2, <1>3, <1>4 DEF Replayable

(* Of a trace without repeated ids verify finds nothing missing and        *)
(* nothing cyclic exactly if its steps can be put in an order in which     *)
(* every message is sent before it is read: for traces of every length,    *)
(* shape and order of records.                                             *)
THEOREM AcceptsWhatCouldHappen == Spec => []AcceptedIffReplayable
  <1>1. SearchInv /\ RankInv /\ VerdictInv /\ CyclesExact => AcceptedIffReplayable
    <2> SUFFICES ASSUME SearchInv, RankInv, VerdictInv, CyclesExact, verdict # "checking", Unrepeated
                 PROVE  (MissingParents(trace) = {} /\ cyclic = {}) <=> Replayable
      BY DEF AcceptedIffReplayable, Unrepeated
    <2>1. TraceOK /\ edges = Edges(trace) /\ cyclic \subseteq Nodes(trace)
      BY DEF SearchInv, VerdictInv, VerifierTypeOK
    <2>2. ASSUME Replayable PROVE MissingParents(trace) = {}
      BY <2>2 DEF Replayable, MissingParents, Produced
    <2>3. ASSUME Replayable PROVE cyclic = {}
      <3>1. ASSUME NEW n \in cyclic PROVE FALSE
        <4>1. PICK S \in SUBSET Nodes(trace) : n \in S /\ Unfounded(S)
          BY <2>1, <3>1 DEF CyclesExact
        <4> QED
          BY <2>1, <2>3, <4>1, ReplayableIsFounded
      <3> QED
        BY <3>1
    <2>4. ASSUME MissingParents(trace) = {}, cyclic = {} PROVE Replayable
      <3>1. visited = Nodes(trace)
        <4>1. stack = <<>> /\ index > Len(trace) /\ index \in Int
          BY DEF SearchInv, TriedInv, VerifierTypeOK
        <4>2. \A i \in 1 .. Len(trace) : trace[i].activation \in visited
          BY <2>1, <2>4, <4>1 DEF SearchInv, TriedInv, TraceOK
        <4> QED
          BY <2>1, <4>2 DEF Nodes, SearchInv, VerifierTypeOK, TraceOK
      <3>2. PICK k \in Nat : \E rank : Ranks(rank, k, Nodes(trace))
        BY <3>1 DEF RankInv
      <3> QED
        BY <2>1, <2>4, <3>2, RanksReplay
    <2> QED
      BY <2>2, <2>3, <2>4
  <1> QED
    BY <1>1, SearchInvariance, VerdictInvariance, ReportsExactlyTheCycles, PTL
-----------------------------------------------------------------------------
(* The metrics of an accepted trace: the search that has visited every     *)
(* node has ranked it above its parents, which is all that CausalTrace's   *)
(* recursion needs; the classes of the union-find are the islands.         *)

Links == EdgePairs(Nodes(trace), Edges(trace))

LEMMA NodesFinite == ASSUME TraceOK PROVE IsFiniteSet(Nodes(trace))
  <1> DEFINE l == Len(trace)
             f == [i \in DOMAIN trace |-> trace[i].activation]
  <1>1. l \in Nat /\ DOMAIN trace = 1 .. l
    BY DEF TraceOK
  <1> HIDE DEF l
  <1>2. IsFiniteSet(DOMAIN trace)
    BY <1>1, FS_Interval
  <1>3. Nodes(trace) = {f[i] : i \in DOMAIN trace}
    BY DEF Nodes
  <1> HIDE DEF f
  <1> QED
    BY <1>2, <1>3, ImageFinite

LEMMA AcceptedIsGrounded ==
  ASSUME SearchInv, RankInv, VerdictInv, verdict = "accepted"
  PROVE  \E rank : Grounded(Nodes(trace), Edges(trace), rank)
  <1>1. TraceOK /\ edges = Edges(trace) /\ cyclic = {}
    BY DEF SearchInv, VerdictInv, NoViolation
  <1>2. visited = Nodes(trace)
    <2>1. stack = <<>> /\ index > Len(trace) /\ index \in Int
      BY DEF SearchInv, TriedInv, VerifierTypeOK
    <2>2. \A i \in 1 .. Len(trace) : trace[i].activation \in visited
      BY <1>1, <2>1 DEF SearchInv, TriedInv, TraceOK
    <2> QED
      BY <1>1, <2>2 DEF Nodes, SearchInv, VerifierTypeOK, TraceOK
  <1>3. PICK k \in Nat : \E rank : Ranks(rank, k, Nodes(trace))
    BY <1>2 DEF RankInv
  <1>4. PICK rank : Ranks(rank, k, Nodes(trace))
    BY <1>3
  <1>5. rank \in [Nodes(trace) -> Nat]
    BY <1>4 DEF Ranks
  <1>6. Grounded(Nodes(trace), Edges(trace), rank)
    BY <1>1, <1>4, <1>5, EdgesType DEF Ranks, Grounded
  <1> QED
    BY <1>6

(* A set of nodes is closed if the links respect it.                       *)
LEMMA ClosedRespects ==
  ASSUME edges = Edges(trace), NEW S \in SUBSET Nodes(trace)
  PROVE  Closed(S) <=> S # {} /\ Respects(S, Links)
  <1> DEFINE N == Nodes(trace)
             E == Edges(trace)
  <1>1. E \in [N -> SUBSET N]
    BY EdgesType
  <1>2. \A n, p \in N : <<n, p>> \in Links <=> p \in E[n]
    BY DEF Links, EdgePairs
  <1>3. \A e \in Links : \E n, p \in N : e = <<n, p>>
    BY DEF Links, EdgePairs
  <1>4. Respects(S, Links) <=> \A n, p \in N : p \in E[n] => (n \in S <=> p \in S)
    <2> HIDE DEF N, E
    <2>1. ASSUME Respects(S, Links), NEW n \in N, NEW p \in N, p \in E[n]
          PROVE  n \in S <=> p \in S
      <3>1. <<n, p>> \in Links
        BY <1>2, <2>1
      <3>2. <<n, p>>[1] \in S <=> <<n, p>>[2] \in S
        BY <2>1, <3>1 DEF Respects
      <3> QED
        BY <3>2
    <2>2. ASSUME \A n, p \in N : p \in E[n] => (n \in S <=> p \in S), NEW e \in Links
          PROVE  e[1] \in S <=> e[2] \in S
      <3>1. PICK n \in N, p \in N : e = <<n, p>>
        BY <1>3
      <3>2. e[1] = n /\ e[2] = p
        BY <3>1
      <3> QED
        BY <1>2, <2>2, <3>1, <3>2
    <2> QED
      BY <2>1, <2>2 DEF Respects
  <1> HIDE DEF N, E
  <1>5. \A n \in S : n \in N
    BY DEF N
  <1>6. Closed(S) <=> S # {} /\ \A n \in S, p \in N : n \in E[p] \/ p \in E[n] => p \in S
    BY DEF Closed, Adjacent, N, E
  <1> QED
    BY <1>4, <1>5, <1>6

LEMMA IslandsAreParts ==
  ASSUME TraceOK, edges = Edges(trace)
  PROVE  Islands = Parts(Nodes(trace), Links)
  <1> DEFINE N == Nodes(trace)
             P(n) == Part(N, Links, n)
  <1>1. \A n, m \in N : JoinedBy(N, Links, n, m) <=> P(n) = P(m)
    BY NodesFinite, ComponentsCounted DEF Links
  <1>2. \A n, m \in N : m \in P(n) <=> JoinedBy(N, Links, n, m)
    BY DEF Part
  <1>3. \A n \in N : P(n) \in SUBSET N /\ n \in P(n)
    BY DEF Part, JoinedBy
  <1>4. \A S \in SUBSET N : Closed(S) <=> S # {} /\ Respects(S, Links)
    BY ClosedRespects
  <1>5. \A e \in Links : e[1] \in N /\ e[2] \in N
    BY DEF Links, EdgePairs
  <1>6. Parts(N, Links) = {P(n) : n \in N}
    BY DEF Parts
  <1> HIDE DEF N, P
  <1>7. ASSUME NEW n \in N PROVE Closed(P(n))
    <2>1. ASSUME NEW e \in Links PROVE JoinedBy(N, Links, e[1], e[2])
      BY DEF JoinedBy, Respects
    <2>2. ASSUME NEW e \in Links PROVE e[1] \in P(n) <=> e[2] \in P(n)
      <3>1. P(e[1]) = P(e[2])
        BY <1>1, <1>5, <2>1
      <3> QED
        BY <1>1, <1>2, <1>5, <3>1
    <2>3. Respects(P(n), Links)
      BY <2>2 DEF Respects
    <2> QED
      BY <1>3, <1>4, <2>3
  <1>8. ASSUME NEW S \in SUBSET N, Closed(S), NEW n \in S PROVE P(n) \subseteq S
    <2>1. Respects(S, Links)
      BY <1>4, <1>8
    <2>2. ASSUME NEW m \in P(n) PROVE m \in S
      <3>1. JoinedBy(N, Links, n, m)
        BY <1>2, <1>3, <2>2
      <3> QED
        BY <2>1, <3>1 DEF JoinedBy
    <2> QED
      BY <2>2
  <1>9. ASSUME NEW S \in Islands PROVE S \in Parts(N, Links)
    <2>1. S \in SUBSET N /\ Closed(S) /\ \A R \in SUBSET S : Closed(R) => R = S
      BY DEF Islands, N
    <2>2. PICK n \in S : TRUE
      BY <2>1 DEF Closed
    <2>3. P(n) = S
      BY <1>7, <1>8, <2>1, <2>2
    <2> QED
      BY <1>6, <2>1, <2>3
  <1>10. ASSUME NEW n \in N PROVE P(n) \in Islands
    <2>1. ASSUME NEW R \in SUBSET P(n), Closed(R) PROVE R = P(n)
      <3>1. PICK x \in R : x \in N
        BY <1>3, <2>1 DEF Closed
      <3>2. R \in SUBSET N
        BY <1>3
      <3>3. P(x) \subseteq R
        BY <1>8, <2>1, <3>2
      <3>4. P(x) = P(n)
        BY <1>1, <1>2, <3>1
      <3> QED
        BY <3>3, <3>4
    <2> QED
      BY <1>3, <1>7, <2>1 DEF Islands, N
  <1> QED
    BY <1>6, <1>9, <1>10 DEF N

(* For every trace that verify accepts, of whatever length and shape,      *)
(* graph_metrics reports the number of its connected components and the    *)
(* length of a longest chain of messages.                                  *)
THEOREM MetricsAreExact == Spec => []MetricsExact
  <1>1. SearchInv /\ RankInv /\ VerdictInv => MetricsExact
    <2> SUFFICES ASSUME SearchInv, RankInv, VerdictInv, verdict = "accepted"
                 PROVE  /\ GraphMetrics(trace).component_count = Cardinality(Islands)
                        /\ trace # <<>> =>
                             /\ Paths(GraphMetrics(trace).max_depth + 1) # {}
                             /\ Paths(GraphMetrics(trace).max_depth + 2) = {}
      BY DEF MetricsExact
    <2> DEFINE N == Nodes(trace)
               E == Edges(trace)
    <2>1. TraceOK /\ edges = E /\ IsFiniteSet(N)
      BY NodesFinite DEF SearchInv, VerdictInv
    <2>2. /\ GraphMetrics(trace).component_count = ComponentCount(trace)
          /\ GraphMetrics(trace).max_depth = MaxDepth(trace)
      BY DEF GraphMetrics
    <2>3. ComponentCount(trace) = Cardinality(Islands)
      BY <2>1, ComponentsCounted, IslandsAreParts DEF Links
    <2>4. PICK rank : Grounded(N, E, rank)
      BY AcceptedIsGrounded
    <2>5. PICK d : IsDepth(N, E, d)
      BY <2>1, <2>4, DepthTable
    <2>6. MaxDepth(trace) = MaxOrZero({d[n] : n \in N})
      BY <2>1, <2>4, <2>5, MaxDepthIsDepth
    <2> DEFINE k == MaxDepth(trace)
    <2>7. ASSUME trace # <<>> PROVE Paths(k + 1) # {} /\ Paths(k + 2) = {}
      <3>1. N # {}
        <4>1. DOMAIN trace # {}
          BY <2>1, <2>7 DEF TraceOK
        <4> QED
          BY <4>1 DEF Nodes
      <3> HIDE DEF N, E, k
      <3>2. k \in Nat /\ (\E p : IsChain(N, E, p, k + 1)) /\ ~ (\E p : IsChain(N, E, p, k + 2))
        BY <2>1, <2>4, <2>5, <2>6, <3>1, LongestChain DEF k
      <3>3. \A j, p : p \in Paths(j) <=> IsChain(N, E, p, j)
        BY <2>1 DEF Paths, IsChain, N
      <3> QED
        BY <3>2, <3>3
    <2> QED
      BY <2>2, <2>3, <2>7
  <1> QED
    BY <1>1, SearchInvariance, VerdictInvariance, PTL
=============================================================================
