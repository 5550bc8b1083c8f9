------------------------- MODULE DentryIndexProofs --------------------------
(***************************************************************************)
(* The dentry index keeps its two maps inverse to each other, for any      *)
(* number of inodes and names.  IndexTypeOK and MapsInverse together are inductive. *)
(***************************************************************************)
EXTENDS DentryIndex, TLAPS

Inv == IndexTypeOK /\ MapsInverse

\* insert() preserves the invariant.
LEMMA InsertInv ==
    ASSUME Inv, NEW k \in Keys, NEW c \in Inodes, Insert(k, c)
    PROVE  Inv'
<1> DEFINE prev == forward[k]
           clean == prev # NoInode /\ prev # c
           rest == IF clean THEN Without(reverse, prev, k) ELSE reverse
<1>1. /\ forward' = [forward EXCEPT ![k] = c]
      /\ reverse' = [rest EXCEPT ![c] = @ \cup {k}]
      /\ known' = (IF clean /\ rest[prev] = {} THEN known \ {prev} ELSE known)
                    \cup {c}
  BY DEF Insert
<1>2. prev \in Inodes \cup {NoInode} /\ c # NoInode
  BY IndexAssumption DEF Inv, IndexTypeOK
<1>3. rest \in [Inodes -> SUBSET Keys]
  BY <1>2 DEF Inv, IndexTypeOK, Without
<1>4. \A d \in Inodes : rest[d] = IF d = prev /\ d # c THEN reverse[d] \ {k}
                                                      ELSE reverse[d]
  BY <1>2, IndexAssumption DEF Inv, IndexTypeOK, Without
<1>5. IndexTypeOK'
  BY <1>1, <1>2, <1>3 DEF Inv, IndexTypeOK
<1>6. \A j \in Keys, d \in Inodes : forward'[j] = d <=> j \in reverse'[d]
  <2> HIDE DEF rest
  <2> SUFFICES ASSUME NEW j \in Keys, NEW d \in Inodes
               PROVE  forward'[j] = d <=> j \in reverse'[d]
    OBVIOUS
  <2>1. reverse'[d] = IF d = c THEN rest[d] \cup {k} ELSE rest[d]
    BY <1>1, <1>3
  <2>2. forward'[j] = IF j = k THEN c ELSE forward[j]
    BY <1>1 DEF Inv, IndexTypeOK
  <2>3. forward[j] = d <=> j \in reverse[d]
    BY DEF Inv, MapsInverse
  <2>4. rest[d] = IF d = prev /\ d # c THEN reverse[d] \ {k} ELSE reverse[d]
    BY <1>4
  <2>5. CASE j = k
    <3>1. CASE d = c
      BY <3>1, <2>1, <2>2, <2>5
    <3>2. CASE d # c
      BY <3>2, <2>1, <2>2, <2>3, <2>4, <2>5
    <3> QED
      BY <3>1, <3>2
  <2>6. CASE j # k
    BY <2>1, <2>2, <2>3, <2>4, <2>6
  <2> QED
    BY <2>5, <2>6
<1>7. \A d \in Inodes : d \in known' <=> reverse'[d] # {}
  <2> HIDE DEF rest
  <2> SUFFICES ASSUME NEW d \in Inodes
               PROVE  d \in known' <=> reverse'[d] # {}
    OBVIOUS
  <2>1. reverse'[d] = IF d = c THEN rest[d] \cup {k} ELSE rest[d]
    BY <1>1, <1>3
  <2>2. CASE d = c
    BY <2>1, <2>2, <1>1
  <2>3. CASE d # c /\ d = prev
    <3>1. clean /\ reverse'[d] = rest[d]
      BY <2>1, <2>3, IndexAssumption
    <3>2. known' = (IF rest[prev] = {} THEN known \ {prev} ELSE known) \cup {c}
      BY <1>1, <3>1
    <3>3. d \in known
      <4>1. k \in reverse[d]
        BY <2>3 DEF Inv, MapsInverse
      <4> QED
        BY <4>1 DEF Inv, MapsInverse
    <3> QED
      BY <2>3, <3>1, <3>2, <3>3
  <2>4. CASE d # c /\ d # prev
    <3>1. reverse'[d] = reverse[d]
      BY <2>1, <2>4, <1>4
    <3>2. d \in known' <=> d \in known
      BY <1>1, <2>4
    <3>3. d \in known <=> reverse[d] # {}
      BY DEF Inv, MapsInverse
    <3> QED
      BY <3>1, <3>2, <3>3
  <2> QED
    BY <2>2, <2>3, <2>4
<1> QED
  BY <1>5, <1>6, <1>7 DEF Inv, MapsInverse

\* remove() preserves the invariant.
LEMMA RemoveInv ==
    ASSUME Inv, NEW k \in Keys, Remove(k)
    PROVE  Inv'
<1> DEFINE c == forward[k]
<1>1. CASE c = NoInode
  <2>1. UNCHANGED indexVars
    BY <1>1 DEF Remove
  <2> QED
    BY <2>1 DEF Inv, IndexTypeOK, MapsInverse, indexVars
<1>2. CASE c # NoInode
  <2>1. /\ forward' = [forward EXCEPT ![k] = NoInode]
        /\ reverse' = [reverse EXCEPT ![c] = @ \ {k}]
        /\ known' = IF reverse[c] = {k} THEN known \ {c} ELSE known
    BY <1>2 DEF Remove, Without
  <2>2. c \in Inodes
    BY <1>2 DEF Inv, IndexTypeOK
  <2>3. IndexTypeOK'
    BY <2>1, <2>2 DEF Inv, IndexTypeOK
  <2>4. \A j \in Keys, d \in Inodes : forward'[j] = d <=> j \in reverse'[d]
    BY <2>1, <2>2, IndexAssumption DEF Inv, IndexTypeOK, MapsInverse
  <2>5. \A d \in Inodes : d \in known' <=> reverse'[d] # {}
    <3>1. k \in reverse[c]
      BY <2>2 DEF Inv, MapsInverse
    <3> QED
      BY <2>1, <2>2, <3>1 DEF Inv, IndexTypeOK, MapsInverse
  <2> QED
    BY <2>3, <2>4, <2>5 DEF Inv, MapsInverse
<1> QED
  BY <1>1, <1>2

\* rename() preserves the invariant, also when source and destination are the
\* same name or two names of one inode.
LEMMA RenameInv ==
    ASSUME Inv, NEW old \in Keys, NEW new \in Keys, Rename(old, new)
    PROVE  Inv'
<1> DEFINE prev == forward[new]
           fwd == [forward EXCEPT ![new] = NoInode]
           rev == IF prev = NoInode THEN reverse ELSE Without(reverse, prev, new)
           kn == IF prev # NoInode /\ rev[prev] = {} THEN known \ {prev} ELSE known
           c == fwd[old]
<1>1. prev \in Inodes \cup {NoInode}
  BY DEF Inv, IndexTypeOK
<1>2. fwd \in [Keys -> Inodes \cup {NoInode}]
  BY DEF Inv, IndexTypeOK
<1>3. rev \in [Inodes -> SUBSET Keys] /\ kn \subseteq Inodes
  BY <1>1 DEF Inv, IndexTypeOK, Without
<1>4. \A j \in Keys : fwd[j] = IF j = new THEN NoInode ELSE forward[j]
  BY DEF Inv, IndexTypeOK
<1>5. \A d \in Inodes : rev[d] = IF d = prev THEN reverse[d] \ {new} ELSE reverse[d]
  BY <1>1, IndexAssumption DEF Inv, IndexTypeOK, Without
<1>6. \A j \in Keys, d \in Inodes : fwd[j] = d <=> j \in rev[d]
  <2> HIDE DEF fwd, rev
  <2> SUFFICES ASSUME NEW j \in Keys, NEW d \in Inodes
               PROVE  fwd[j] = d <=> j \in rev[d]
    OBVIOUS
  <2>1. forward[j] = d <=> j \in reverse[d]
    BY DEF Inv, MapsInverse
  <2>2. rev[d] = IF d = prev THEN reverse[d] \ {new} ELSE reverse[d]
    BY <1>5
  <2>3. fwd[j] = IF j = new THEN NoInode ELSE forward[j]
    BY <1>4
  <2> QED
    BY <2>1, <2>2, <2>3, IndexAssumption
<1>7. \A d \in Inodes : d \in kn <=> rev[d] # {}
  <2> HIDE DEF rev
  <2> SUFFICES ASSUME NEW d \in Inodes
               PROVE  d \in kn <=> rev[d] # {}
    OBVIOUS
  <2>1. CASE d = prev
    <3>1. new \in reverse[d]
      BY <2>1 DEF Inv, MapsInverse
    <3> QED
      BY <2>1, <3>1, IndexAssumption DEF Inv, MapsInverse
  <2>2. CASE d # prev
    BY <2>2, <1>5 DEF Inv, MapsInverse
  <2> QED
    BY <2>1, <2>2
<1>8. CASE c = NoInode
  <2>1. forward' = fwd /\ reverse' = rev /\ known' = kn
    BY <1>8 DEF Rename
  <2> HIDE DEF fwd, rev, kn
  <2> QED
    BY <2>1, <1>2, <1>3, <1>6, <1>7 DEF Inv, IndexTypeOK, MapsInverse
<1>9. CASE c # NoInode
  <2>1. c \in Inodes
    BY <1>2, <1>9
  <2>2. c \in kn /\ old \in rev[c] /\ old # new
    BY <2>1, <1>4, <1>6, <1>7, <1>9
  <2>3. /\ forward' = [fwd EXCEPT ![old] = NoInode, ![new] = c]
        /\ reverse' = [rev EXCEPT ![c] = (@ \ {old}) \cup {new}]
        /\ known' = kn
    BY <1>9, <2>2 DEF Rename
  <2> HIDE DEF fwd, rev, kn, c
  <2>4. IndexTypeOK'
    BY <2>1, <2>3, <1>2, <1>3 DEF IndexTypeOK
  <2>5. \A j \in Keys : forward'[j] = IF j = new THEN c
                                      ELSE IF j = old THEN NoInode ELSE fwd[j]
    BY <2>3, <1>2
  <2>6. \A d \in Inodes : reverse'[d] = IF d = c THEN (rev[d] \ {old}) \cup {new}
                                                ELSE rev[d]
    BY <2>3, <1>3
  <2>7. fwd[new] = NoInode /\ fwd[old] = c
    BY <1>4 DEF c
  <2>8. \A j \in Keys, d \in Inodes : forward'[j] = d <=> j \in reverse'[d]
    <3> SUFFICES ASSUME NEW j \in Keys, NEW d \in Inodes
                 PROVE  forward'[j] = d <=> j \in reverse'[d]
      OBVIOUS
    <3>1. fwd[j] = d <=> j \in rev[d]
      BY <1>6
    <3>2. CASE j = new
      BY <3>1, <3>2, <2>1, <2>2, <2>5, <2>6, <2>7, IndexAssumption
    <3>3. CASE j = old
      <4>1. forward'[j] = NoInode /\ (d # c => j \notin rev[d])
        BY <3>1, <3>3, <2>2, <2>5, <2>7
      <4>2. j \notin reverse'[d]
        BY <4>1, <3>3, <2>2, <2>6
      <4> QED
        BY <4>1, <4>2, IndexAssumption
    <3>4. CASE j # new /\ j # old
      BY <3>1, <3>4, <2>1, <2>5, <2>6
    <3> QED
      BY <3>2, <3>3, <3>4
  <2>9. \A d \in Inodes : d \in known' <=> reverse'[d] # {}
    BY <2>2, <2>3, <2>6, <1>7
  <2> QED
    BY <2>4, <2>8, <2>9 DEF Inv, MapsInverse
<1> QED
  BY <1>8, <1>9

\* forget_inode() preserves the invariant.
LEMMA ForgetInv ==
    ASSUME Inv, NEW c \in Inodes, ForgetInode(c)
    PROVE  Inv'
<1>1. IndexTypeOK'
  BY DEF Inv, IndexTypeOK, ForgetInode
<1>2. \A j \in Keys : forward'[j] = IF j \in reverse[c] THEN NoInode ELSE forward[j]
  BY DEF ForgetInode
<1>3. \A d \in Inodes : reverse'[d] = IF d = c THEN {} ELSE reverse[d]
  BY DEF ForgetInode, Inv, IndexTypeOK
<1>4. \A j \in Keys, d \in Inodes : forward'[j] = d <=> j \in reverse'[d]
  BY <1>2, <1>3, IndexAssumption DEF Inv, MapsInverse
<1>5. \A d \in Inodes : d \in known' <=> reverse'[d] # {}
  BY <1>3 DEF ForgetInode, Inv, MapsInverse
<1> QED
  BY <1>1, <1>4, <1>5 DEF Inv, MapsInverse

\* Whatever sequence of operations the request handlers call, the forward and
\* the reverse map of the dentry index stay inverse to each other.
THEOREM IndexInverse == IndexSpec => []MapsInverse
<1>1. IndexInit => Inv
  BY IndexAssumption DEF IndexInit, Inv, IndexTypeOK, MapsInverse
<1>2. Inv /\ [IndexNext]_indexVars => Inv'
  <2> SUFFICES ASSUME Inv, [IndexNext]_indexVars
               PROVE  Inv'
    OBVIOUS
  <2>1. CASE UNCHANGED indexVars
    BY <2>1 DEF Inv, IndexTypeOK, MapsInverse, indexVars
  <2>2. CASE IndexNext
    BY <2>2, InsertInv, RemoveInv, RenameInv, ForgetInv DEF IndexNext
  <2> QED
    BY <2>1, <2>2
<1>3. Inv => MapsInverse
  BY DEF Inv
<1> QED
  BY <1>1, <1>2, <1>3, PTL DEF IndexSpec
=============================================================================
