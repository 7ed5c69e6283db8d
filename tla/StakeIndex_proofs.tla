-------------------------- MODULE StakeIndex_proofs --------------------------
(***************************************************************************)
(* Proofs about the abstract stake index, for every number of blocks,     *)
(* every set of timestamps, every modifier interval and every set of      *)
(* modifier values the assumptions of StakeIndex allow.                   *)
(***************************************************************************)
EXTENDS StakeIndex, TLAPS

(***************************************************************************)
(* The two checked invariants together are inductive: the new block's    *)
(* parent and last generating ancestor are older blocks, so the EXCEPT at *)
(* the new id leaves every value the older blocks' conjuncts read alone.  *)
(***************************************************************************)
IInv == IndexTypeOK /\ LastModifierFound

(***************************************************************************)
(* What accepting a block does, unpacked from the LET of AcceptBlock.     *)
(***************************************************************************)
LEMMA AcceptBlockEffect ==
  ASSUME IndexTypeOK, NEW p \in Blocks, NEW t \in Times, NEW pos \in BOOLEAN,
         AcceptBlock(p, t, pos)
  PROVE  /\ nBlocks \in Ids /\ p \in Ids /\ p < nBlocks
         /\ nBlocks' = nBlocks + 1
         /\ parent' = [parent EXCEPT ![nBlocks] = p]
         /\ time' = [time EXCEPT ![nBlocks] = t]
         /\ isPoS' = [isPoS EXCEPT ![nBlocks] = pos]
         /\ generated' = [generated EXCEPT ![nBlocks] = NewInterval(p, t)]
         /\ lastGen' = [lastGen EXCEPT ![nBlocks] =
                          IF NewInterval(p, t) THEN nBlocks ELSE lastGen[p]]
         /\ \E v \in ModifierValues :
              modifier' = [modifier EXCEPT ![nBlocks] =
                             IF NewInterval(p, t) THEN v
                             ELSE modifier[lastGen[p]]]
<1>1. nBlocks \in Ids /\ p \in Ids /\ p < nBlocks
  BY MaxBlocksAssumption DEF AcceptBlock, IndexTypeOK, Ids, Blocks
<1>2. QED
  BY <1>1, Zenon DEF AcceptBlock

(***************************************************************************)
(* Accepting a block keeps every field of the index well typed.           *)
(***************************************************************************)
LEMMA AcceptBlockType ==
  ASSUME IndexTypeOK, NEW p \in Blocks, NEW t \in Times, NEW pos \in BOOLEAN,
         AcceptBlock(p, t, pos)
  PROVE  IndexTypeOK'
<1>1. /\ nBlocks \in Ids /\ p \in Ids
      /\ nBlocks' = nBlocks + 1
      /\ parent' = [parent EXCEPT ![nBlocks] = p]
      /\ time' = [time EXCEPT ![nBlocks] = t]
      /\ isPoS' = [isPoS EXCEPT ![nBlocks] = pos]
      /\ generated' = [generated EXCEPT ![nBlocks] = NewInterval(p, t)]
      /\ lastGen' = [lastGen EXCEPT ![nBlocks] =
                       IF NewInterval(p, t) THEN nBlocks ELSE lastGen[p]]
  BY AcceptBlockEffect
<1>2. PICK v \in ModifierValues :
        modifier' = [modifier EXCEPT ![nBlocks] =
                       IF NewInterval(p, t) THEN v
                       ELSE modifier[lastGen[p]]]
  BY AcceptBlockEffect
<1>3. NewInterval(p, t) \in BOOLEAN
  BY DEF NewInterval
<1>4. nBlocks' \in 1 .. MaxBlocks
  BY <1>1, MaxBlocksAssumption DEF Ids
<1>5. parent' \in [Ids -> Ids] /\ isPoS' \in [Ids -> BOOLEAN]
  BY <1>1 DEF IndexTypeOK, Ids, Blocks
<1>6. time' \in [Ids -> Nat]
  BY <1>1, TimesAssumption DEF IndexTypeOK
<1>7. generated' \in [Ids -> BOOLEAN]
  BY <1>1, <1>3 DEF IndexTypeOK
<1>8. lastGen' \in [Ids -> Ids]
  BY <1>1, <1>3 DEF IndexTypeOK
<1>9. modifier' \in [Ids -> Nat]
  <2>1. v \in Nat /\ modifier[lastGen[p]] \in Nat
    BY <1>1, ValuesAssumption DEF IndexTypeOK
  <2>2. (IF NewInterval(p, t) THEN v ELSE modifier[lastGen[p]]) \in Nat
    BY <2>1
  <2>3. QED
    BY <1>1, <1>2, <2>2 DEF IndexTypeOK
<1>10. QED
  BY <1>4, <1>5, <1>6, <1>7, <1>8, <1>9 DEF IndexTypeOK

(***************************************************************************)
(* Every state the index reaches is well typed: accepting a block stores  *)
(* a parent, a timestamp, a modifier and a last-generation link of the    *)
(* right kind, and never more than MaxBlocks blocks.                      *)
(***************************************************************************)
THEOREM TypeCorrect == Spec => []IndexTypeOK
<1>1. Init => IndexTypeOK
  BY MaxBlocksAssumption, TimesAssumption DEF Init, IndexTypeOK, Ids
<1>2. IndexTypeOK /\ [Next]_vars => IndexTypeOK'
  <2> SUFFICES ASSUME IndexTypeOK, [Next]_vars PROVE IndexTypeOK'
    OBVIOUS
  <2>1. ASSUME NEW p \in Blocks, NEW t \in Times, NEW pos \in BOOLEAN,
               AcceptBlock(p, t, pos)
        PROVE  IndexTypeOK'
    BY <2>1, AcceptBlockType
  <2>2. CASE UNCHANGED vars
    BY <2>2 DEF vars, IndexTypeOK
  <2>3. QED
    BY <2>1, <2>2 DEF Next
<1>3. QED
  BY <1>1, <1>2, PTL DEF Spec

(***************************************************************************)
(* The initial index, genesis alone and generated, satisfies IInv.        *)
(***************************************************************************)
LEMMA InitIInv == Init => IInv
<1> SUFFICES ASSUME Init PROVE IInv
  OBVIOUS
<1>1. 0 \in Ids /\ Blocks = {0}
  BY MaxBlocksAssumption DEF Init, Ids, Blocks
<1>2. IndexTypeOK
  BY MaxBlocksAssumption, TimesAssumption DEF Init, IndexTypeOK, Ids
<1>3. generated[0] /\ lastGen[0] = 0
  BY <1>1, Zenon DEF Init
<1>4. LastModifierFound
  <2>1. lastGen[0] <= 0 /\ modifier[0] = modifier[lastGen[0]]
    BY <1>3
  <2>2. generated[lastGen[0]]
        /\ lastGen[0] = IF generated[0] THEN 0 ELSE lastGen[parent[0]]
    BY <1>3, Zenon
  <2>3. Blocks \ {0} = {}
    BY <1>1
  <2>4. QED
    BY <1>1, <1>3, <2>1, <2>2, <2>3, Zenon DEF LastModifierFound
<1>5. QED
  BY <1>2, <1>4 DEF IInv

(***************************************************************************)
(* Accepting a block below an existing parent preserves IInv.  The new    *)
(* block n is the only one whose fields change, and neither the parent    *)
(* nor the last generating ancestor of any block is n.                    *)
(***************************************************************************)
LEMMA AcceptBlockIInv ==
  ASSUME IInv, NEW p \in Blocks, NEW t \in Times, NEW pos \in BOOLEAN,
         AcceptBlock(p, t, pos)
  PROVE  IInv'
<1> DEFINE gen == NewInterval(p, t)
<1>1. IndexTypeOK /\ LastModifierFound
  BY DEF IInv
<1>0. nBlocks \in 1 .. MaxBlocks /\ parent \in [Ids -> Ids]
      /\ lastGen \in [Ids -> Ids] /\ time \in [Ids -> Nat]
  BY <1>1 DEF IndexTypeOK
<1>2. /\ nBlocks \in Ids /\ p \in Ids /\ p < nBlocks
      /\ nBlocks' = nBlocks + 1
      /\ parent' = [parent EXCEPT ![nBlocks] = p]
      /\ time' = [time EXCEPT ![nBlocks] = t]
      /\ generated' = [generated EXCEPT ![nBlocks] = gen]
      /\ lastGen' = [lastGen EXCEPT ![nBlocks] = IF gen THEN nBlocks ELSE lastGen[p]]
  BY <1>1, AcceptBlockEffect
<1>3. PICK v \in ModifierValues :
        modifier' = [modifier EXCEPT ![nBlocks] =
                       IF gen THEN v ELSE modifier[lastGen[p]]]
  BY <1>1, AcceptBlockEffect
<1>4. gen \in BOOLEAN
  BY DEF NewInterval
<1>5. Blocks' = Blocks \cup {nBlocks} /\ nBlocks \notin Blocks /\ Blocks \subseteq Ids
  <2>1. nBlocks \in Nat /\ nBlocks' = nBlocks + 1
    BY <1>2, MaxBlocksAssumption DEF Ids
  <2>2. Blocks' = 0 .. nBlocks
    BY <2>1 DEF Blocks
  <2>3. Blocks' = Blocks \cup {nBlocks}
    BY <2>1, <2>2 DEF Blocks
  <2>4. nBlocks \notin Blocks
    BY <2>1 DEF Blocks
  <2>5. Blocks \subseteq Ids
    BY <1>0, MaxBlocksAssumption DEF Blocks, Ids
  <2>6. QED
    BY <2>3, <2>4, <2>5
\* The older blocks keep their fields.
<1>6. ASSUME NEW b \in Ids \ {nBlocks}
      PROVE  /\ parent'[b] = parent[b] /\ time'[b] = time[b]
             /\ generated'[b] = generated[b] /\ modifier'[b] = modifier[b]
             /\ lastGen'[b] = lastGen[b]
  BY <1>1, <1>2, <1>3 DEF IndexTypeOK
\* The links of an older block point to older blocks.
<1>7. ASSUME NEW b \in Blocks
      PROVE  /\ lastGen[b] \in Blocks /\ lastGen[b] \in Ids \ {nBlocks}
             /\ lastGen[b] <= b
             /\ b # 0 => parent[b] \in Blocks /\ parent[b] \in Ids \ {nBlocks}
  <2>1. lastGen[b] <= b /\ (b # 0 => parent[b] < b)
    BY <1>1, Zenon DEF LastModifierFound
  <2>2. QED
    BY <1>0, <1>5, <2>1 DEF Blocks, Ids
<1>8. IndexTypeOK'
  BY <1>1, AcceptBlockType
<1>9. LastModifierFound'
  <2>1. generated'[0] /\ \A b \in Blocks' \ {0} : parent'[b] < b
    <3>1. 0 \in Blocks
      BY <1>1 DEF Blocks, IndexTypeOK
    <3>2. generated'[0] = generated[0] /\ generated[0]
      BY <1>1, <1>5, <1>6, <3>1 DEF LastModifierFound
    <3>3. \A b \in Blocks \ {0} : parent'[b] = parent[b] /\ parent[b] < b
      BY <1>1, <1>5, <1>6 DEF LastModifierFound
    <3>4. parent'[nBlocks] = p
      BY <1>1, <1>2 DEF IndexTypeOK
    <3>5. QED
      BY <1>2, <1>5, <3>2, <3>3, <3>4, Zenon
  <2>2. ASSUME NEW b \in Blocks
        PROVE  /\ lastGen'[b] <= b
               /\ generated'[lastGen'[b]]
               /\ lastGen'[b] = IF generated'[b] THEN b
                                ELSE lastGen'[parent'[b]]
               /\ modifier'[b] = modifier'[lastGen'[b]]
    <3>1. b \in Ids \ {nBlocks} /\ lastGen[b] \in Ids \ {nBlocks}
      BY <1>5, <1>7
    <3>2. /\ lastGen[b] <= b
          /\ generated[lastGen[b]]
          /\ lastGen[b] = IF generated[b] THEN b ELSE lastGen[parent[b]]
          /\ modifier[b] = modifier[lastGen[b]]
      BY <1>1 DEF LastModifierFound
    <3>3. ~generated[b] => b # 0
      BY <1>1, Zenon DEF LastModifierFound
    <3>4. ~generated[b] => lastGen'[parent'[b]] = lastGen[parent[b]]
      BY <1>6, <1>7, <3>1, <3>3
    <3>5. QED
      BY <1>6, <3>1, <3>2, <3>4, Zenon
  <2>3. /\ lastGen'[nBlocks] <= nBlocks
        /\ generated'[lastGen'[nBlocks]]
        /\ lastGen'[nBlocks] = IF generated'[nBlocks] THEN nBlocks ELSE lastGen'[parent'[nBlocks]]
        /\ modifier'[nBlocks] = modifier'[lastGen'[nBlocks]]
    <3>1. /\ parent'[nBlocks] = p /\ generated'[nBlocks] = gen
          /\ lastGen'[nBlocks] = IF gen THEN nBlocks ELSE lastGen[p]
          /\ modifier'[nBlocks] = IF gen THEN v ELSE modifier[lastGen[p]]
      BY <1>1, <1>2, <1>3 DEF IndexTypeOK
    <3>2. CASE gen
      <4>1. lastGen'[nBlocks] = nBlocks /\ nBlocks <= nBlocks
        <5>1. lastGen'[nBlocks] = nBlocks
          BY <3>1, <3>2, Zenon
        <5>2. QED
          BY <1>2, <5>1 DEF Ids
      <4>2. generated'[nBlocks]
        BY <3>1, <3>2
      <4>3. QED
        BY <3>1, <3>2, <4>1, <4>2, Zenon
    <3>3. CASE ~gen
      <4>1. lastGen[p] \in Ids \ {nBlocks} /\ p \in Ids \ {nBlocks} /\ lastGen[p] <= p
        BY <1>2, <1>5, <1>7
      <4>2. /\ lastGen'[p] = lastGen[p]
            /\ generated'[lastGen[p]] = generated[lastGen[p]]
            /\ modifier'[lastGen[p]] = modifier[lastGen[p]]
        BY <1>6, <4>1
      <4>3. generated[lastGen[p]]
        BY <1>1 DEF LastModifierFound
      <4>4. lastGen'[nBlocks] = lastGen[p] /\ lastGen[p] <= nBlocks
        BY <1>2, <3>1, <3>3, <4>1 DEF Ids
      <4>5. QED
        BY <3>1, <3>3, <4>2, <4>3, <4>4, Zenon
    <3>4. QED
      BY <3>2, <3>3
  <2>4. QED
    BY <1>5, <2>1, <2>2, <2>3 DEF LastModifierFound
<1>10. QED
  BY <1>8, <1>9 DEF IInv

(***************************************************************************)
(* IInv holds in every reachable state of the index.                      *)
(***************************************************************************)
THEOREM IInvariant == Spec => []IInv
<1>1. Init => IInv
  BY InitIInv
<1>2. IInv /\ [Next]_vars => IInv'
  <2> SUFFICES ASSUME IInv, [Next]_vars PROVE IInv'
    OBVIOUS
  <2>1. ASSUME NEW p \in Blocks, NEW t \in Times, NEW pos \in BOOLEAN,
               AcceptBlock(p, t, pos)
        PROVE  IInv'
    BY <2>1, AcceptBlockIInv
  <2>2. CASE UNCHANGED vars
    BY <2>2 DEF vars, IInv, IndexTypeOK, LastModifierFound, Blocks
  <2>3. QED
    BY <2>1, <2>2 DEF Next
<1>3. QED
  BY <1>1, <1>2, PTL DEF Spec

(***************************************************************************)
(* GetLastStakeModifier always finds a generated ancestor whose modifier  *)
(* the block carries, in every reachable index.                           *)
(***************************************************************************)
THEOREM LastModifierAlwaysFound == Spec => []LastModifierFound
BY IInvariant, PTL DEF IInv
=============================================================================
