-------------------------- MODULE FileMappingProofs --------------------------
(***************************************************************************)
(* Proofs about FileMapping, for any number of readers, sizes and faults.  *)
(***************************************************************************)
EXTENDS FileMapping, TLAPS

\* SizesAgree is inductive once an empty file is known to be mapped by nobody.
MapInv ==
  /\ TypeOK
  /\ SizesAgree
  /\ size = 0 => \A r \in Live : ~reader[r].mapped

-----------------------------------------------------------------------------
(* The registry. *)

LEMMA LiveIsInRegistry ==
  ASSUME TypeOK
  PROVE  \A q : q \in Live <=> \E i \in 1 .. Len(ActiveReaders) : ActiveReaders[i] = q
BY DEF TypeOK, Live, ToSet

LEMMA Registered ==
  ASSUME TypeOK, NEW r \in Readers, r \notin Live,
         ActiveReaders' = Append(ActiveReaders, r)
  PROVE  /\ ActiveReaders' \in Seq(Readers) /\ IsInjective(ActiveReaders')
         /\ Live' = Live \cup {r}
<1>1. /\ ActiveReaders \in Seq(Readers) /\ Len(ActiveReaders) \in Nat
      /\ \A i, j \in 1 .. Len(ActiveReaders) : ActiveReaders[i] = ActiveReaders[j] => i = j
  BY DEF TypeOK, IsInjective
<1>2. /\ ActiveReaders' \in Seq(Readers) /\ Len(ActiveReaders') = Len(ActiveReaders) + 1
      /\ \A i \in 1 .. Len(ActiveReaders) : ActiveReaders'[i] = ActiveReaders[i]
      /\ ActiveReaders'[Len(ActiveReaders) + 1] = r
  BY <1>1
<1>3. \A i \in 1 .. Len(ActiveReaders) : ActiveReaders[i] # r
  BY LiveIsInRegistry
<1>4. \A i, j \in 1 .. Len(ActiveReaders') : ActiveReaders'[i] = ActiveReaders'[j] => i = j
  BY <1>1, <1>2, <1>3
<1>5. DOMAIN ActiveReaders' = 1 .. Len(ActiveReaders')
  BY <1>2
<1>6. IsInjective(ActiveReaders')
  BY <1>4, <1>5 DEF IsInjective
<1>7. Live' = Live \cup {r}
  <2>1. \A q : q \in Live' <=> \E i \in 1 .. Len(ActiveReaders') : ActiveReaders'[i] = q
    BY <1>5 DEF Live, ToSet
  <2>2. \A q : (\E i \in 1 .. Len(ActiveReaders') : ActiveReaders'[i] = q)
               <=> (\E i \in 1 .. Len(ActiveReaders) : ActiveReaders[i] = q) \/ q = r
    BY <1>1, <1>2
  <2> QED BY <2>1, <2>2, LiveIsInRegistry
<1> QED BY <1>2, <1>6, <1>7

LEMMA Unregistered ==
  ASSUME TypeOK, NEW i \in DOMAIN ActiveReaders,
         ActiveReaders' = RemoveAt(ActiveReaders, i)
  PROVE  /\ ActiveReaders' \in Seq(Readers) /\ IsInjective(ActiveReaders')
         /\ Live' = Live \ {ActiveReaders[i]}
<1>1. /\ ActiveReaders \in Seq(Readers) /\ Len(ActiveReaders) \in Nat
      /\ DOMAIN ActiveReaders = 1 .. Len(ActiveReaders)
      /\ \A j, k \in 1 .. Len(ActiveReaders) : ActiveReaders[j] = ActiveReaders[k] => j = k
      /\ i \in 1 .. Len(ActiveReaders)
  BY DEF TypeOK, IsInjective
<1> DEFINE left == SubSeq(ActiveReaders, 1, i - 1)
           right == SubSeq(ActiveReaders, i + 1, Len(ActiveReaders))
<1>2. left \in Seq(Readers) /\ Len(left) = i - 1 /\ \A j \in 1 .. i - 1 : left[j] = ActiveReaders[j]
  BY <1>1
<1>3. /\ right \in Seq(Readers) /\ Len(right) = Len(ActiveReaders) - i
      /\ \A j \in 1 .. Len(ActiveReaders) - i : right[j] = ActiveReaders[i + j]
  BY <1>1
<1>4. ActiveReaders' = left \o right
  BY DEF RemoveAt
<1> HIDE DEF left, right
<1>5. /\ ActiveReaders' \in Seq(Readers) /\ Len(ActiveReaders') = Len(ActiveReaders) - 1
      /\ DOMAIN ActiveReaders' = 1 .. Len(ActiveReaders')
      /\ \A j \in 1 .. Len(ActiveReaders) - 1 :
           ActiveReaders'[j] = IF j < i THEN ActiveReaders[j] ELSE ActiveReaders[j + 1]
  <2>1. /\ ActiveReaders' \in Seq(Readers) /\ Len(ActiveReaders') = Len(left) + Len(right)
        /\ \A j \in 1 .. Len(left) + Len(right) :
             ActiveReaders'[j] = IF j <= Len(left) THEN left[j] ELSE right[j - Len(left)]
    BY <1>2, <1>3, <1>4
  <2>2. Len(ActiveReaders') = Len(ActiveReaders) - 1
    BY <1>1, <1>2, <1>3, <2>1
  <2>3. ASSUME NEW j \in 1 .. Len(ActiveReaders) - 1
        PROVE  ActiveReaders'[j] = IF j < i THEN ActiveReaders[j] ELSE ActiveReaders[j + 1]
    <3>1. CASE j < i
      BY <1>1, <1>2, <1>3, <2>1, <3>1
    <3>2. CASE ~(j < i)
      <4>1. j - Len(left) \in 1 .. Len(ActiveReaders) - i /\ i + (j - Len(left)) = j + 1
        BY <1>1, <1>2, <3>2
      <4>2. ActiveReaders'[j] = right[j - Len(left)]
        BY <1>1, <1>2, <1>3, <2>1, <3>2
      <4> QED BY <1>3, <3>2, <4>1, <4>2
    <3> QED BY <3>1, <3>2
  <2> QED BY <2>1, <2>2, <2>3
<1>6. IsInjective(ActiveReaders')
  <2> SUFFICES ASSUME NEW j \in 1 .. Len(ActiveReaders'), NEW k \in 1 .. Len(ActiveReaders'),
                      ActiveReaders'[j] = ActiveReaders'[k]
               PROVE  j = k
    BY <1>5 DEF IsInjective
  <2> QED BY <1>1, <1>5
<1>7. Live' = Live \ {ActiveReaders[i]}
  <2>1. \A q : q \in Live' <=> \E j \in 1 .. Len(ActiveReaders') : ActiveReaders'[j] = q
    BY <1>5 DEF Live, ToSet
  <2>2. ASSUME NEW q, q \in Live' PROVE q \in Live /\ q # ActiveReaders[i]
    <3>1. PICK j \in 1 .. Len(ActiveReaders') : ActiveReaders'[j] = q
      BY <2>1, <2>2
    <3>2. PICK k \in 1 .. Len(ActiveReaders) : k # i /\ ActiveReaders[k] = q
      BY <1>1, <1>5, <3>1
    <3> QED BY <1>1, <3>2, LiveIsInRegistry
  <2>3. ASSUME NEW q, q \in Live, q # ActiveReaders[i] PROVE q \in Live'
    <3>1. PICK k \in 1 .. Len(ActiveReaders) : ActiveReaders[k] = q
      BY <2>3, LiveIsInRegistry
    <3>2. CASE k < i
      BY <1>1, <1>5, <2>1, <3>1, <3>2
    <3>3. CASE k > i
      <4>1. k - 1 \in 1 .. Len(ActiveReaders') /\ ActiveReaders'[k - 1] = q
        BY <1>1, <1>5, <3>1, <3>3
      <4> QED BY <2>1, <4>1
    <3> QED BY <1>1, <2>3, <3>1, <3>2, <3>3
  <2> QED BY <2>2, <2>3
<1> QED BY <1>5, <1>6, <1>7

-----------------------------------------------------------------------------
(* Mapping. *)

LEMMA MappableIsPositive ==
  ASSUME NEW n \in 0 .. MaxSize
  PROVE  Mappable(n) \in 1 .. MaxSize /\ (n # 0 => Mappable(n) = n)
BY MappingAssumption DEF MappingAssumption, Mappable

LEMMA OpenedIsState ==
  ASSUME NEW n \in 0 .. MaxSize
  PROVE  /\ Opened(n) \in State /\ Opened(n).mapped
         /\ Opened(n).FileSize = Mappable(n)
BY MappableIsPositive, MappingAssumption DEF MappingAssumption, Opened, State

\* Whoever is remapped knows the size, everyone else is unmapped.
LEMMA RemapAgrees ==
  ASSUME TypeOK, NEW r \in Readers, NEW k \in 0 .. Len(ActiveReaders),
         NEW n \in 0 .. MaxSize, NEW own \in State
  PROVE  /\ Remap(r, k, n, own) \in [Readers -> State]
         /\ Remap(r, k, n, own)[r] = own
         /\ \A q \in Live \ {r} :
              \/ Remap(r, k, n, own)[q] = Opened(n)
              \/ ~Remap(r, k, n, own)[q].mapped
<1>1. Opened(n) \in State
  BY OpenedIsState
<1>2. /\ UnmapOthers(r) \in [Readers -> State]
      /\ \A q \in Live \ {r} : ~UnmapOthers(r)[q].mapped
  <2>1. \A s \in State : Unmapped(s) \in State /\ ~Unmapped(s).mapped
    BY DEF Unmapped, State
  <2>2. reader \in [Readers -> State] /\ Live \subseteq Readers
    BY DEF TypeOK, Live, ToSet
  <2> QED BY <2>1, <2>2 DEF UnmapOthers
<1>3. Live \subseteq Readers
  BY DEF TypeOK, Live, ToSet
<1> QED BY <1>1, <1>2, <1>3 DEF Remap

LEMMA Writing ==
  ASSUME TypeOK, MapInv, NEW r \in Readers, NEW len \in Lengths, CanWrite(r, len)
  PROVE  /\ r \in Live /\ reader[r].mapped /\ reader[r].FileSize = size
         /\ End(r, len) \in 1 .. MaxSize
         /\ Extended(r, len) \in 1 .. MaxSize
         /\ Written(r, len) \in State /\ Written(r, len).FileSize = Extended(r, len)
         /\ [Written(r, len) EXCEPT !.FilePosition = End(r, len)] \in State
         /\ [Written(r, len) EXCEPT !.FilePosition = End(r, len)].FileSize = Extended(r, len)
<1>1. r \in Live /\ reader[r].mapped /\ reader[r].FileSize = size
  BY DEF CanWrite, Using, MapInv, SizesAgree
<1>2. /\ reader[r].FilePosition \in 0 .. MaxSize /\ reader[r].FileSize \in 0 .. MaxSize
      /\ reader[r].mapped \in BOOLEAN /\ reader[r] \in State
  BY DEF TypeOK, State
<1>3. len \in Nat /\ len # 0 /\ MaxSize \in Nat
  BY MappingAssumption DEF MappingAssumption
<1>4. End(r, len) \in 1 .. MaxSize
  BY <1>2, <1>3 DEF CanWrite, End
<1>5. Extended(r, len) \in 1 .. MaxSize
  BY <1>2, <1>3, <1>4 DEF Extended, Fits
<1>6. Written(r, len) \in State /\ Written(r, len).FileSize = Extended(r, len)
  BY <1>2, <1>3, <1>5 DEF Written, State
<1>7. /\ [Written(r, len) EXCEPT !.FilePosition = End(r, len)] \in State
      /\ [Written(r, len) EXCEPT !.FilePosition = End(r, len)].FileSize = Extended(r, len)
  BY <1>3, <1>4, <1>6 DEF State
<1> QED BY <1>1, <1>4, <1>5, <1>6, <1>7

-----------------------------------------------------------------------------
(* One lemma per kind of step. *)

\* The invariant after a step that keeps the registry and remaps or unmaps the others.
LEMMA AgreesAfterRemap ==
  ASSUME MapInv, NEW r \in Readers, r \in Live, NEW k \in 0 .. Len(ActiveReaders),
         NEW n \in 0 .. MaxSize, NEW own \in State,
         reader' = Remap(r, k, n, own), UNCHANGED ActiveReaders,
         size' \in 0 .. MaxSize,
         own.mapped => own.FileSize = size' /\ size' # 0,
         (\E q \in Readers : reader'[q].mapped) => size' = Mappable(n)
  PROVE  /\ reader' \in [Readers -> State]
         /\ SizesAgree'
         /\ size' = 0 => \A q \in Live' : ~reader'[q].mapped
<1>1. TypeOK /\ Live' = Live /\ Live \subseteq Readers
  BY DEF MapInv, TypeOK, Live, ToSet
<1>2. /\ reader' \in [Readers -> State] /\ reader'[r] = own
      /\ \A q \in Live \ {r} : reader'[q] = Opened(n) \/ ~reader'[q].mapped
  BY <1>1, RemapAgrees
<1>3. Opened(n).FileSize = Mappable(n) /\ Mappable(n) \in 1 .. MaxSize /\ (n = 0 => Mappable(n) = 1)
  BY OpenedIsState, MappableIsPositive DEF Mappable
<1>4. ASSUME NEW q \in Live, reader'[q].mapped
      PROVE  reader'[q].FileSize = size' /\ size' # 0
  <2>1. CASE q = r
    BY <1>2, <1>4, <2>1
  <2>2. CASE q # r
    <3>1. reader'[q] = Opened(n)
      BY <1>2, <1>4, <2>2
    <3>2. size' = Mappable(n)
      BY <1>1, <1>3, <1>4
    <3> QED BY <1>3, <3>1, <3>2
  <2> QED BY <2>1, <2>2
<1> QED BY <1>1, <1>2, <1>4 DEF SizesAgree

LEMMA NewKeeps == ASSUME MapInv, NEW r \in Readers, New(r) PROVE MapInv'
<1>1. TypeOK /\ size \in 0 .. MaxSize
  BY DEF MapInv, TypeOK
<1>2. /\ ActiveReaders' \in Seq(Readers) /\ IsInjective(ActiveReaders')
      /\ Live' = Live \cup {r}
  BY <1>1, Registered DEF New
<1>3. /\ size' = Mappable(size) /\ size' \in 1 .. MaxSize /\ (size # 0 => size' = size)
      /\ reader' = [reader EXCEPT ![r] = Opened(size)]
  BY <1>1, MappableIsPositive DEF New
<1>4. Opened(size) \in State /\ Opened(size).FileSize = size'
  BY <1>1, <1>3, OpenedIsState
<1>5. TypeOK'
  <2>1. closed' \subseteq Live'
    BY <1>1, <1>2 DEF New, TypeOK
  <2>2. reader' \in [Readers -> State]
    BY <1>1, <1>3, <1>4 DEF TypeOK
  <2> QED BY <1>1, <1>2, <1>3, <2>1, <2>2 DEF New, TypeOK
<1>6. ASSUME NEW q \in Live', reader'[q].mapped PROVE reader'[q].FileSize = size'
  <2>1. CASE q = r
    BY <1>1, <1>3, <1>4, <2>1 DEF TypeOK
  <2>2. CASE q # r
    <3>1. q \in Live /\ reader'[q] = reader[q] /\ r \in Readers
      BY <1>2, <1>3, <2>2
    <3>2. reader[q].FileSize = size /\ size # 0
      BY <1>6, <3>1 DEF MapInv, SizesAgree
    <3> QED BY <1>3, <3>1, <3>2
  <2> QED BY <2>1, <2>2
<1>7. size' # 0
  BY <1>3
<1> QED BY <1>5, <1>6, <1>7 DEF MapInv, SizesAgree

LEMMA DeleteKeeps == ASSUME MapInv, NEW r \in Readers, Delete(r) PROVE MapInv'
<1>1. TypeOK
  BY DEF MapInv
<1>2. PICK i \in DOMAIN ActiveReaders :
        ActiveReaders[i] = r /\ ActiveReaders' = RemoveAt(ActiveReaders, i)
  BY DEF Delete
<1>3. /\ ActiveReaders' \in Seq(Readers) /\ IsInjective(ActiveReaders')
      /\ Live' = Live \ {r}
  BY <1>1, <1>2, Unregistered
<1>4. Unmapped(reader[r]) \in State
  BY <1>1 DEF TypeOK, State, Unmapped
<1>5. reader' \in [Readers -> State] /\ \A q \in Live' : reader'[q] = reader[q]
  BY <1>1, <1>3, <1>4 DEF Delete, TypeOK
<1>6. closed' \subseteq Live'
  BY <1>1, <1>3 DEF Delete, TypeOK
<1>7. TypeOK'
  BY <1>1, <1>3, <1>5, <1>6 DEF Delete, TypeOK
<1> QED BY <1>3, <1>5, <1>7 DEF MapInv, SizesAgree, Delete

LEMMA CallKeeps ==
  ASSUME MapInv, NEW r \in Readers,
         \/ Close(r) \/ WriteRefused(r)
         \/ \E pos \in 0 .. MaxSize : Seek(r, pos)
         \/ \E len \in Lengths : Serialize(r, len)
         \/ \E n \in 0 .. MaxSize, force \in BOOLEAN : TrimRefused(r, n, force)
  PROVE  MapInv'
<1>1. /\ reader \in [Readers -> State] /\ size \in 0 .. MaxSize /\ r \in Live
      /\ closed \subseteq Live /\ UNCHANGED <<size, ActiveReaders, faults>> /\ Live' = Live
  BY DEF MapInv, TypeOK, Close, WriteRefused, Seek, Serialize, TrimRefused, Using, Live
<1> DEFINE KeepsSizes ==
      /\ reader' \in [Readers -> State]
      /\ \A q \in Readers : /\ reader'[q].FileSize = reader[q].FileSize
                            /\ reader'[q].mapped => reader[q].mapped
<1>2. KeepsSizes
  <2>1. CASE Close(r)
    BY <1>1, <2>1 DEF Close, Unmapped, State
  <2>2. CASE WriteRefused(r) \/ \E n \in 0 .. MaxSize, force \in BOOLEAN : TrimRefused(r, n, force)
    BY <1>1, <2>2 DEF WriteRefused, TrimRefused
  <2>3. ASSUME NEW pos \in 0 .. MaxSize, Seek(r, pos) PROVE KeepsSizes
    BY <1>1, <2>3 DEF Seek, State
  <2>4. ASSUME NEW len \in Lengths, Serialize(r, len) PROVE KeepsSizes
    <3>1. /\ reader[r].FilePosition \in 0 .. MaxSize /\ reader[r].FileSize \in 0 .. MaxSize
          /\ len \in Nat /\ MaxSize \in Nat
      BY <1>1, MappingAssumption DEF State, MappingAssumption
    <3>2. reader[r].FilePosition + len \in 0 .. MaxSize
      BY <2>4, <3>1 DEF Serialize, Fits
    <3>3. reader' = [reader EXCEPT ![r].FilePosition = reader[r].FilePosition + len]
      BY <2>4 DEF Serialize
    <3> QED BY <1>1, <3>2, <3>3 DEF State
  <2> QED BY <2>1, <2>2, <2>3, <2>4
<1>3. closed' \subseteq Live' /\ result' \in {"none", "true", "false"} /\ crashed' \in BOOLEAN
  BY <1>1 DEF MapInv, TypeOK, State, Close, WriteRefused, Seek, Serialize, TrimRefused, Using
<1>4. TypeOK'
  BY <1>1, <1>2, <1>3 DEF MapInv, TypeOK
<1> QED BY <1>1, <1>2, <1>4 DEF MapInv, TypeOK, SizesAgree, Live, ToSet

LEMMA WriteKeeps ==
  ASSUME MapInv, NEW r \in Readers, NEW len \in Lengths, Write(r, len)
  PROVE  MapInv'
<1> DEFINE moved == [Written(r, len) EXCEPT !.FilePosition = End(r, len)]
<1>1. TypeOK /\ CanWrite(r, len)
  BY DEF MapInv, Write, WriteBuffer, ExtendFails, FlushFails, RemapFails
<1>2. /\ r \in Live /\ reader[r].mapped /\ reader[r].FileSize = size
      /\ End(r, len) \in 1 .. MaxSize /\ Extended(r, len) \in 1 .. MaxSize
      /\ Written(r, len) \in State /\ Written(r, len).FileSize = Extended(r, len)
      /\ moved \in State /\ moved.FileSize = Extended(r, len)
  BY <1>1, Writing
<1>3. /\ Len(ActiveReaders) \in Nat /\ Mappable(Extended(r, len)) = Extended(r, len)
      /\ Extended(r, len) \in 0 .. MaxSize /\ Extended(r, len) # 0
  BY <1>1, <1>2, MappableIsPositive DEF TypeOK
<1>4. UnmapOthers(r) \in [Readers -> State] /\ \A q \in Live \ {r} : ~UnmapOthers(r)[q].mapped
  <2>1. \A s \in State : Unmapped(s) \in State /\ ~Unmapped(s).mapped
    BY DEF Unmapped, State
  <2>2. reader \in [Readers -> State] /\ Live \subseteq Readers
    BY <1>1 DEF TypeOK, Live, ToSet
  <2> QED BY <2>1, <2>2 DEF UnmapOthers
<1>5. UNCHANGED <<ActiveReaders, closed, crashed>> /\ result' \in {"true", "false"}
      /\ faults' \in 0 .. MaxFaults
  BY <1>1, MappingAssumption
     DEF TypeOK, Write, WriteBuffer, ExtendFails, FlushFails, RemapFails, Fault, MappingAssumption
<1>6. ASSUME size' \in 0 .. MaxSize, reader' \in [Readers -> State] PROVE TypeOK'
  BY <1>1, <1>5, <1>6 DEF TypeOK, Live
<1>7. CASE WriteBuffer(r, len)
  <2>1. size' = Extended(r, len) /\ reader' = Remap(r, Len(ActiveReaders), Extended(r, len), moved)
    BY <1>7 DEF WriteBuffer
  <2>3. /\ Len(ActiveReaders) \in 0 .. Len(ActiveReaders)
        /\ moved.mapped => moved.FileSize = size' /\ size' # 0
        /\ size' = Mappable(Extended(r, len)) /\ size' \in 0 .. MaxSize
        /\ UNCHANGED ActiveReaders
    BY <1>2, <1>3, <1>5, <2>1
  <2> HIDE DEF moved
  <2>2. /\ reader' \in [Readers -> State] /\ SizesAgree'
        /\ size' = 0 => \A q \in Live' : ~reader'[q].mapped
    BY <1>1, <1>2, <1>3, <2>1, <2>3, AgreesAfterRemap
  <2> QED BY <1>6, <2>2, <2>3 DEF MapInv
<1>8. CASE RemapFails(r, len)
  <2>1. PICK k \in 0 .. Len(ActiveReaders) - 1 : reader' = Remap(r, k, size', moved)
    BY <1>8 DEF RemapFails
  <2>2. size' = Extended(r, len) /\ k \in 0 .. Len(ActiveReaders)
    BY <1>3, <1>8 DEF RemapFails
  <2>3. reader' = Remap(r, k, Extended(r, len), moved)
    BY <2>1, <2>2
  <2>4. /\ reader' \in [Readers -> State] /\ SizesAgree'
        /\ size' = 0 => \A q \in Live' : ~reader'[q].mapped
    BY <1>2, <1>3, <1>5, <2>2, <2>3, AgreesAfterRemap
  <2> QED BY <1>2, <1>6, <2>2, <2>4 DEF MapInv
<1>9. CASE FlushFails(r, len)
  <2>1. size' = Extended(r, len) /\ reader' = [UnmapOthers(r) EXCEPT ![r] = Written(r, len)]
    BY <1>9 DEF FlushFails
  <2>2. /\ reader' \in [Readers -> State] /\ reader'[r].FileSize = size'
        /\ \A q \in Live \ {r} : ~reader'[q].mapped
    BY <1>2, <1>4, <2>1
  <2>3. Live' = Live /\ size' # 0
    BY <1>3, <1>5, <2>1 DEF Live
  <2> QED BY <1>2, <1>6, <2>1, <2>2, <2>3 DEF MapInv, SizesAgree
<1>10. CASE ExtendFails(r, len)
  <2>1. size' \in {size, End(r, len)} /\ reader' = [UnmapOthers(r) EXCEPT ![r] = Unmapped(@)]
    BY <1>10 DEF ExtendFails
  <2>2. Unmapped(UnmapOthers(r)[r]) \in State /\ ~Unmapped(UnmapOthers(r)[r]).mapped
    BY <1>4 DEF Unmapped, State
  <2>3. reader' = [UnmapOthers(r) EXCEPT ![r] = Unmapped(UnmapOthers(r)[r])]
    BY <1>4, <2>1
  <2>5. reader' \in [Readers -> State] /\ \A q \in Live : ~reader'[q].mapped
    <3> HIDE DEF Unmapped
    <3> QED BY <1>4, <2>2, <2>3
  <2>4. Live' = Live /\ size' \in 0 .. MaxSize
    BY <1>1, <1>2, <1>5, <2>1 DEF Live, TypeOK
  <2> QED BY <1>6, <2>4, <2>5 DEF MapInv, SizesAgree
<1> QED BY <1>7, <1>8, <1>9, <1>10 DEF Write

LEMMA TrimKeeps ==
  ASSUME MapInv, NEW r \in Readers, NEW n \in 0 .. MaxSize, NEW force \in BOOLEAN,
         TrimToSize(r, n, force) \/ TrimFails(r, n, force)
  PROVE  MapInv'
<1>1. /\ TypeOK /\ r \in Live /\ size \in 0 .. MaxSize /\ Len(ActiveReaders) \in Nat
      /\ reader[r] \in State
  BY DEF MapInv, TypeOK, TrimToSize, TrimFails, Using
<1>2. UNCHANGED <<ActiveReaders, closed, crashed>> /\ result' \in {"true", "false"}
      /\ faults' \in 0 .. MaxFaults
  BY <1>1, MappingAssumption DEF TypeOK, TrimToSize, TrimFails, Fault, MappingAssumption
<1>3. ASSUME size' \in 0 .. MaxSize, reader' \in [Readers -> State] PROVE TypeOK'
  BY <1>1, <1>2, <1>3 DEF TypeOK, Live
<1>4. CASE TrimToSize(r, n, force)
  <2>1. size' = Mappable(n) /\ reader' = Remap(r, Len(ActiveReaders), n, Opened(n))
    BY <1>4 DEF TrimToSize
  <2>2. Opened(n) \in State /\ Opened(n).FileSize = size' /\ size' \in 1 .. MaxSize
    BY <2>1, OpenedIsState, MappableIsPositive
  <2>3. size' \in 0 .. MaxSize /\ size' # 0 /\ Len(ActiveReaders) \in 0 .. Len(ActiveReaders)
    BY <1>1, <2>2
  <2>4. /\ reader' \in [Readers -> State] /\ SizesAgree'
        /\ size' = 0 => \A q \in Live' : ~reader'[q].mapped
    BY <1>1, <1>2, <2>1, <2>2, <2>3, AgreesAfterRemap
  <2> QED BY <1>3, <2>3, <2>4 DEF MapInv
<1>5. CASE TrimFails(r, n, force)
  <2>1. PICK cut \in {size, n}, k \in 0 .. Len(ActiveReaders), own \in BOOLEAN :
          /\ reader' = Remap(r, k, cut, IF own THEN Opened(cut) ELSE TrimmedOnly(r, cut))
          /\ size' = IF \E q \in Readers : reader'[q].mapped THEN Mappable(cut) ELSE cut
    BY <1>5 DEF TrimFails
  <2> DEFINE mine == IF own THEN Opened(cut) ELSE TrimmedOnly(r, cut)
  <2>2. cut \in 0 .. MaxSize /\ Mappable(cut) \in 1 .. MaxSize
    BY <1>1, MappableIsPositive
  <2>3. TrimmedOnly(r, cut) \in State /\ ~TrimmedOnly(r, cut).mapped
    BY <1>1, <2>2 DEF TrimmedOnly, State
  <2>4. mine \in State /\ (mine.mapped => mine.FileSize = Mappable(cut))
    BY <2>2, <2>3, OpenedIsState
  <2>5. reader' = Remap(r, k, cut, mine)
    BY <2>1
  <2>6. reader'[r] = mine
    BY <1>1, <2>2, <2>4, <2>5, RemapAgrees
  <2>7. mine.mapped => mine.FileSize = size' /\ size' # 0
    BY <2>1, <2>2, <2>4, <2>6
  <2>8. size' \in 0 .. MaxSize
    BY <2>1, <2>2
  <2>9. (\E q \in Readers : reader'[q].mapped) => size' = Mappable(cut)
    BY <2>1
  <2> HIDE DEF mine
  <2>10. /\ reader' \in [Readers -> State] /\ SizesAgree'
         /\ size' = 0 => \A q \in Live' : ~reader'[q].mapped
    BY <1>1, <1>2, <2>2, <2>4, <2>5, <2>7, <2>8, <2>9, AgreesAfterRemap
  <2> QED BY <1>3, <2>8, <2>10 DEF MapInv
<1> QED BY <1>4, <1>5

-----------------------------------------------------------------------------
(* The theorems. *)

\* The inductive invariant holds throughout.
THEOREM MapInvariant == Spec => []MapInv
<1>1. Init => MapInv
  <2> SUFFICES ASSUME Init PROVE MapInv
    OBVIOUS
  <2>1. Live = {} /\ ActiveReaders \in Seq(Readers) /\ IsInjective(ActiveReaders)
    BY DEF Init, Live, ToSet, IsInjective
  <2>2. reader \in [Readers -> State]
    BY MappingAssumption DEF Init, State, MappingAssumption
  <2>3. /\ size \in 0 .. MaxSize /\ closed \subseteq Live
        /\ result \in {"none", "true", "false"} /\ crashed \in BOOLEAN
    BY DEF Init
  <2>4. faults \in 0 .. MaxFaults
    BY MappingAssumption DEF Init, MappingAssumption
  <2>5. TypeOK
    BY <2>1, <2>2, <2>3, <2>4 DEF TypeOK
  <2> QED BY <2>1, <2>5 DEF MapInv, SizesAgree
<1>2. MapInv /\ [Next]_vars => MapInv'
  <2> SUFFICES ASSUME MapInv, [Next]_vars PROVE MapInv'
    OBVIOUS
  <2>1. CASE UNCHANGED vars
    BY <2>1 DEF vars, MapInv, TypeOK, SizesAgree, Live
  <2>2. CASE Next
    <3> PICK r \in Readers :
          \/ New(r) \/ Delete(r) \/ Close(r) \/ WriteRefused(r)
          \/ \E pos \in 0 .. MaxSize : Seek(r, pos)
          \/ \E len \in Lengths : Serialize(r, len) \/ Write(r, len)
          \/ \E n \in 0 .. MaxSize, force \in BOOLEAN : Trim(r, n, force)
      BY <2>2 DEF Next
    <3>1. CASE New(r)
      BY <3>1, NewKeeps
    <3>2. CASE Delete(r)
      BY <3>2, DeleteKeeps
    <3>3. ASSUME NEW len \in Lengths, Write(r, len) PROVE MapInv'
      BY <3>3, WriteKeeps
    <3>4. ASSUME NEW n \in 0 .. MaxSize, NEW force \in BOOLEAN,
                 TrimToSize(r, n, force) \/ TrimFails(r, n, force)
          PROVE  MapInv'
      BY <3>4, TrimKeeps
    <3>5. CASE \/ Close(r) \/ WriteRefused(r)
               \/ \E pos \in 0 .. MaxSize : Seek(r, pos)
               \/ \E len \in Lengths : Serialize(r, len)
               \/ \E n \in 0 .. MaxSize, force \in BOOLEAN : TrimRefused(r, n, force)
      BY <3>5, CallKeeps
    <3> QED BY <3>1, <3>2, <3>3, <3>4, <3>5 DEF Trim
  <2> QED BY <2>1, <2>2
<1> QED BY <1>1, <1>2, PTL DEF Spec

\* A mapped reader knows the file's size, whatever calls failed before
\* (FileReader.cpp:81-85, 108, 225-232).
THEOREM SizesAlwaysAgree == Spec => []SizesAgree
<1>1. MapInv => SizesAgree
  BY DEF MapInv
<1> QED BY <1>1, MapInvariant, PTL

\* Every variable of the readers keeps its type.
THEOREM TypeCorrect == Spec => []TypeOK
<1>1. MapInv => TypeOK
  BY DEF MapInv
<1> QED BY <1>1, MapInvariant, PTL

\* A WriteBuffer or TrimToSize that says true has every registered reader mapped, also
\* those an earlier failure had left without a mapping (FileReader.cpp:108-110, 204-210).
THEOREM SuccessIsComplete == Spec => []SuccessRemapsAll
<1>1. Init => SuccessRemapsAll
  BY DEF Init, SuccessRemapsAll
<1>2. MapInv /\ SuccessRemapsAll /\ [Next]_vars => SuccessRemapsAll'
  <2> SUFFICES ASSUME MapInv, SuccessRemapsAll, [Next]_vars, result' = "true"
               PROVE  \A q \in Live' : reader'[q].mapped
    BY DEF SuccessRemapsAll
  <2>1. CASE UNCHANGED vars
    BY <2>1 DEF vars, SuccessRemapsAll, Live
  <2>2. CASE Next
    <3>1. PICK r \in Readers :
            \/ \E len \in Lengths : WriteBuffer(r, len)
            \/ \E n \in 0 .. MaxSize, force \in BOOLEAN : TrimToSize(r, n, force)
      BY <2>2 DEF Next, New, Delete, Close, WriteRefused, Seek, Serialize, Write, ExtendFails,
         FlushFails, RemapFails, Trim, TrimRefused, TrimFails
    <3>2. /\ Live' = Live
          /\ \E n, own : own.mapped /\ reader' = Remap(r, Len(ActiveReaders), n, own)
      <4>1. CASE \E len \in Lengths : WriteBuffer(r, len)
        <5> PICK len \in Lengths : WriteBuffer(r, len)
          BY <4>1
        <5>1. [Written(r, len) EXCEPT !.FilePosition = End(r, len)].mapped
          BY Writing DEF WriteBuffer, CanWrite, Written, MapInv, TypeOK, State, Using, Live, ToSet
        <5> QED BY <5>1 DEF WriteBuffer, Live
      <4>2. CASE \E n \in 0 .. MaxSize, force \in BOOLEAN : TrimToSize(r, n, force)
        BY <4>2 DEF TrimToSize, Opened, Live
      <4> QED BY <3>1, <4>1, <4>2
    <3>3. \A q \in Live : q \in Readers /\ \E i \in 1 .. Len(ActiveReaders) : ActiveReaders[i] = q
      BY LiveIsInRegistry DEF MapInv, TypeOK
    <3>4. \A n : Opened(n).mapped
      BY DEF Opened
    <3> QED BY <3>2, <3>3, <3>4 DEF Remap
  <2> QED BY <2>1, <2>2
<1> QED BY <1>1, <1>2, MapInvariant, PTL DEF Spec
=============================================================================
