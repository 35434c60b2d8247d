------------------------ MODULE CandidateListProofs -------------------------
(***************************************************************************)
(* What UpdateCandidateApList returns: a list of the same type that is     *)
(* still ranked, for every list of candidates and every new measurement.   *)
(***************************************************************************)
EXTENDS StaWifiMac, SequenceTheorems, WellFoundedInduction, TLAPS

\* Min of a nonempty set of naturals is its least element.
LEMMA LeastNatural ==
    ASSUME NEW T \in SUBSET Nat, T # {}
    PROVE  Min(T) \in T /\ \A y \in T : Min(T) <= y
<1> DEFINE R == OpToRel(<, Nat)
<1>1. \E x \in T : \A y \in T : ~(<<y, x>> \in R)
  <2>1. IsWellFoundedOn(R, Nat)
    BY NatLessThanWellFounded
  <2> HIDE DEF R
  <2> QED
    BY <2>1, WFMin
<1>2. PICK x \in T : \A y \in T : ~(<<y, x>> \in R)
  BY <1>1
<1>3. \A y \in T : <<y, x>> \in R <=> y < x
  BY DEF OpToRel
<1> HIDE DEF R
<1>4. \A y \in T : x <= y
  <2> TAKE y \in T
  <2>1. ~(y < x)
    BY <1>2, <1>3
  <2>2. x \in Nat /\ y \in Nat
    OBVIOUS
  <2> QED
    BY <2>1, <2>2
<1> QED
  BY <1>4 DEF Min

\* Taking out the element at k shifts the elements behind it.
LEMMA RemoveAtFacts ==
    ASSUME NEW S, NEW s \in Seq(S), NEW k \in 1..Len(s)
    PROVE  /\ RemoveAt(s, k) \in Seq(S)
           /\ Len(RemoveAt(s, k)) = Len(s) - 1
           /\ \A j \in 1..Len(s) - 1 :
                 RemoveAt(s, k)[j] = IF j < k THEN s[j] ELSE s[j + 1]
<1> DEFINE a == SubSeq(s, 1, k - 1)
           b == SubSeq(s, k + 1, Len(s))
<1>1. /\ a \in Seq(S)
      /\ Len(a) = k - 1
      /\ \A j \in 1..k - 1 : a[j] = s[j]
  OBVIOUS
<1>2. /\ b \in Seq(S)
      /\ Len(b) = Len(s) - k
      /\ \A j \in 1..Len(s) - k : b[j] = s[k + j]
  OBVIOUS
<1>3. RemoveAt(s, k) = a \o b
  BY DEF RemoveAt
<1> HIDE DEF a, b
<1>4. /\ a \o b \in Seq(S)
      /\ Len(a \o b) = Len(s) - 1
      /\ \A j \in 1..Len(s) - 1 :
            (a \o b)[j] = IF j <= k - 1 THEN a[j] ELSE b[j - (k - 1)]
  <2>1. k \in Int /\ Len(s) \in Nat /\ Len(a) + Len(b) = Len(s) - 1
    BY <1>1, <1>2
  <2>2. /\ a \o b \in Seq(S)
        /\ Len(a \o b) = Len(a) + Len(b)
        /\ \A i \in 1..Len(a) + Len(b) :
              (a \o b)[i] = IF i <= Len(a) THEN a[i] ELSE b[i - Len(a)]
    BY <1>1, <1>2, ConcatProperties, Zenon
  <2> QED
    BY <2>1, <2>2, <1>1
<1>5. \A j \in 1..Len(s) - 1 :
         (a \o b)[j] = IF j < k THEN s[j] ELSE s[j + 1]
  <2> TAKE j \in 1..Len(s) - 1
  <2>1. CASE j < k
    BY <2>1, <1>1, <1>4
  <2>2. CASE ~(j < k)
    BY <2>2, <1>2, <1>4
  <2> QED
    BY <2>1, <2>2
<1> QED
  BY <1>3, <1>4, <1>5

\* Inserting e at k shifts the elements from k on.
LEMMA InsertAtFacts ==
    ASSUME NEW S, NEW s \in Seq(S), NEW k \in 1..Len(s), NEW e \in S
    PROVE  /\ InsertAt(s, k, e) \in Seq(S)
           /\ Len(InsertAt(s, k, e)) = Len(s) + 1
           /\ \A j \in 1..Len(s) + 1 :
                 InsertAt(s, k, e)[j] = IF j < k THEN s[j]
                                        ELSE IF j = k THEN e ELSE s[j - 1]
<1>1. /\ SubSeq(s, 1, k - 1) \in Seq(S)
      /\ Len(SubSeq(s, 1, k - 1)) = k - 1
      /\ \A j \in 1..k - 1 : SubSeq(s, 1, k - 1)[j] = s[j]
  OBVIOUS
<1>2. /\ SubSeq(s, k, Len(s)) \in Seq(S)
      /\ Len(SubSeq(s, k, Len(s))) = Len(s) - k + 1
      /\ \A j \in 1..Len(s) - k + 1 : SubSeq(s, k, Len(s))[j] = s[k + j - 1]
  OBVIOUS
<1>3. <<e>> \in Seq(S) /\ Len(<<e>>) = 1 /\ <<e>>[1] = e
  OBVIOUS
<1> QED
  BY <1>1, <1>2, <1>3 DEF InsertAt

-----------------------------------------------------------------------------
\* Every entry has a natural SNR.
LEMMA EntrySnr ==
    ASSUME NEW list \in Seq(ApInfoEntry)
    PROVE  \A i \in 1..Len(list) : list[i].snr \in Nat
<1> TAKE i \in 1..Len(list)
<1>1. list[i] \in ApInfoEntry
  BY ElementOfSeq
<1> QED
  BY <1>1, SnrAssumption DEF ApInfoEntry

\* Without its entry for an AP a ranked list is ranked and free of that AP.
LEMMA RemovedEntry ==
    ASSUME NEW list \in Seq(ApInfoEntry), Ranked(list), Strong(list),
           NEW b \in Aps
    PROVE  LET others == RemoveFirstMatch(list, LAMBDA c : c.bssid = b) IN
           /\ others \in Seq(ApInfoEntry)
           /\ Ranked(others) /\ Strong(others)
           /\ \A i \in 1..Len(others) : others[i].bssid # b
<1> DEFINE I == {i \in 1..Len(list) : list[i].bssid = b}
           k == Min(I)
           others == RemoveFirstMatch(list, LAMBDA c : c.bssid = b)
<1>1. CASE I = {}
  <2>1. others = list
    BY <1>1 DEF RemoveFirstMatch
  <2> QED
    BY <2>1, <1>1
<1>2. CASE I # {}
  <2>1. k \in I
    <3>1. I \in SUBSET Nat
      OBVIOUS
    <3> HIDE DEF I
    <3> QED
      BY <1>2, <3>1, LeastNatural
  <2>2. others = RemoveAt(list, k)
    BY <1>2 DEF RemoveFirstMatch, SelectInSeq
  <2>3. k \in 1..Len(list) /\ list[k].bssid = b
    BY <2>1
  <2> DEFINE r == RemoveAt(list, k)
  <2> HIDE DEF I, k, others
  <2>4. /\ r \in Seq(ApInfoEntry)
        /\ Len(r) = Len(list) - 1
        /\ \A j \in 1..Len(list) - 1 :
              r[j] = IF j < k THEN list[j] ELSE list[j + 1]
    BY <2>3, RemoveAtFacts
  <2> HIDE DEF r
  <2>5. Ranked(r)
    <3> SUFFICES ASSUME NEW i \in 1..Len(r), NEW j \in 1..Len(r), i < j
                 PROVE  r[i].bssid # r[j].bssid /\ r[i].snr >= r[j].snr
      BY DEF Ranked
    <3>1. PICK m \in 1..Len(list), n \in 1..Len(list) :
             m < n /\ r[i] = list[m] /\ r[j] = list[n]
      <4> DEFINE shift(x) == IF x < k THEN x ELSE x + 1
      <4>1. shift(i) \in 1..Len(list) /\ shift(j) \in 1..Len(list)
        BY <2>3, <2>4
      <4>2. shift(i) < shift(j)
        BY <2>3, <2>4
      <4>3. r[i] = list[shift(i)] /\ r[j] = list[shift(j)]
        BY <2>3, <2>4
      <4> QED
        BY <4>1, <4>2, <4>3
    <3> QED
      BY <3>1 DEF Ranked
  <2>6. Strong(r)
    BY <2>3, <2>4 DEF Strong
  <2>7. \A i \in 1..Len(r) : r[i].bssid # b
    <3> TAKE i \in 1..Len(r)
    <3>1. PICK m \in 1..Len(list) : m # k /\ r[i] = list[m]
      BY <2>3, <2>4
    <3>2. m < k \/ k < m
      BY <2>3, <3>1
    <3> QED
      BY <2>3, <3>1, <3>2 DEF Ranked
  <2> QED
    BY <2>2, <2>4, <2>5, <2>6, <2>7 DEF r, others
<1> QED
  BY <1>1, <1>2

\* A list stays ranked when an AP it does not hold is appended and no entry
\* is weaker.
LEMMA AppendedEntry ==
    ASSUME NEW list \in Seq(ApInfoEntry), Ranked(list), Strong(list),
           NEW ap \in ApInfoEntry, SnrDb[ap.snr] >= m_snrThreshold,
           \A i \in 1..Len(list) : list[i].bssid # ap.bssid,
           \A i \in 1..Len(list) : ~(ap.snr > list[i].snr)
    PROVE  Ranked(Append(list, ap)) /\ Strong(Append(list, ap))
<1> DEFINE r == Append(list, ap)
<1>1. /\ Len(r) = Len(list) + 1
      /\ \A i \in 1..Len(list) : r[i] = list[i]
      /\ r[Len(list) + 1] = ap
  OBVIOUS
<1>2. \A i \in 1..Len(list) : list[i].snr >= ap.snr
  <2>1. ap.snr \in Nat
    BY SnrAssumption DEF ApInfoEntry
  <2> QED
    BY <2>1, EntrySnr
<1> HIDE DEF r
<1>3. Ranked(r)
  BY <1>1, <1>2 DEF Ranked
<1>4. Strong(r)
  BY <1>1 DEF Strong
<1> QED
  BY <1>3, <1>4 DEF r

\* A list stays ranked when an AP it does not hold is inserted before the
\* first weaker entry.
LEMMA InsertedEntry ==
    ASSUME NEW list \in Seq(ApInfoEntry), Ranked(list), Strong(list),
           NEW ap \in ApInfoEntry, SnrDb[ap.snr] >= m_snrThreshold,
           \A i \in 1..Len(list) : list[i].bssid # ap.bssid,
           NEW k \in 1..Len(list), ap.snr > list[k].snr,
           \A i \in 1..Len(list) : i < k => ~(ap.snr > list[i].snr)
    PROVE  Ranked(InsertAt(list, k, ap)) /\ Strong(InsertAt(list, k, ap))
<1> DEFINE r == InsertAt(list, k, ap)
<1>1. /\ Len(r) = Len(list) + 1
      /\ \A j \in 1..Len(list) + 1 :
            r[j] = IF j < k THEN list[j] ELSE IF j = k THEN ap ELSE list[j - 1]
  BY InsertAtFacts
<1>2. \A i \in 1..Len(list) : list[i].snr \in Nat
  BY EntrySnr
<1>3. ap.snr \in Nat
  BY SnrAssumption DEF ApInfoEntry
<1>4. \A i \in 1..Len(list) : i < k => list[i].snr >= ap.snr
  BY <1>2, <1>3
<1>5. \A i \in 1..Len(list) : i >= k => ap.snr >= list[i].snr
  BY <1>2, <1>3 DEF Ranked
<1> HIDE DEF r
<1>6. Ranked(r)
  <2> SUFFICES ASSUME NEW i \in 1..Len(r), NEW j \in 1..Len(r), i < j
               PROVE  r[i].bssid # r[j].bssid /\ r[i].snr >= r[j].snr
    BY DEF Ranked
  <2>1. CASE i = k
    BY <2>1, <1>1, <1>5
  <2>2. CASE j = k
    BY <2>2, <1>1, <1>4
  <2>3. CASE i # k /\ j # k
    <3>1. PICK m \in 1..Len(list), n \in 1..Len(list) :
             m < n /\ r[i] = list[m] /\ r[j] = list[n]
      <4> DEFINE m == IF i < k THEN i ELSE i - 1
                 n == IF j < k THEN j ELSE j - 1
      <4>1. m \in 1..Len(list) /\ n \in 1..Len(list) /\ m < n
        BY <2>3, <1>1
      <4>2. r[i] = list[m]
        BY <2>3, <1>1
      <4>3. r[j] = list[n]
        BY <2>3, <1>1
      <4> HIDE DEF m, n
      <4> QED
        BY <4>1, <4>2, <4>3
    <3> QED
      BY <3>1 DEF Ranked
  <2> QED
    BY <2>1, <2>2, <2>3
<1>7. Strong(r)
  <2> SUFFICES ASSUME NEW j \in 1..Len(r)
               PROVE  SnrDb[r[j].snr] >= m_snrThreshold
    BY DEF Strong
  <2>1. CASE j = k
    BY <2>1, <1>1
  <2>2. CASE j # k
    <3>1. PICK m \in 1..Len(list) : r[j] = list[m]
      BY <2>2, <1>1
    <3> QED
      BY <3>1 DEF Strong
  <2> QED
    BY <2>1, <2>2
<1> QED
  BY <1>6, <1>7 DEF r

\* UpdateCandidateApList keeps a list of candidates ranked, without duplicates
\* and above the threshold, whatever AP is measured and however often.
THEOREM CandidateUpdate ==
    ASSUME NEW list \in Seq(ApInfoEntry), Ranked(list), Strong(list),
           NEW ap \in ApInfoEntry
    PROVE  /\ UpdateCandidateApList(list, ap) \in Seq(ApInfoEntry)
           /\ Ranked(UpdateCandidateApList(list, ap))
           /\ Strong(UpdateCandidateApList(list, ap))
<1> DEFINE others == RemoveFirstMatch(list, LAMBDA c : c.bssid = ap.bssid)
           I == {i \in 1..Len(others) : ap.snr > others[i].snr}
           lower == SelectInSeq(others, LAMBDA c : ap.snr > c.snr)
           r == UpdateCandidateApList(list, ap)
<1>1. ap.bssid \in Aps
  BY DEF ApInfoEntry
<1>2. /\ others \in Seq(ApInfoEntry)
      /\ Ranked(others) /\ Strong(others)
      /\ \A i \in 1..Len(others) : others[i].bssid # ap.bssid
  BY <1>1, RemovedEntry
<1>3. lower = IF I # {} THEN Min(I) ELSE 0
  BY DEF SelectInSeq
<1>4. r = IF SnrDb[ap.snr] < m_snrThreshold THEN others
          ELSE IF lower = 0 THEN Append(others, ap)
          ELSE InsertAt(others, lower, ap)
  BY DEF UpdateCandidateApList
<1> HIDE DEF others, lower, r
<1>5. I \in SUBSET (1..Len(others)) /\ Len(others) \in Nat
  <2>1. Len(others) \in Nat
    BY <1>2, LenProperties
  <2> QED
    BY <2>1
<1>6. SnrDb[ap.snr] \in Int
  BY SnrAssumption DEF ApInfoEntry
<1>7. I # {} => Min(I) \in I /\ \A i \in I : Min(I) <= i
  <2>1. I \in SUBSET Nat
    BY <1>5
  <2> HIDE DEF I
  <2> QED
    BY <2>1, LeastNatural
<1>8. \A i \in 1..Len(others) : i \in I <=> ap.snr > others[i].snr
  OBVIOUS
<1> HIDE DEF I
<1>9. CASE SnrDb[ap.snr] < m_snrThreshold
  BY <1>2, <1>4, <1>9 DEF r
<1>10. CASE ~(SnrDb[ap.snr] < m_snrThreshold) /\ I = {}
  <2>1. r = Append(others, ap)
    BY <1>3, <1>4, <1>10
  <2>2. SnrDb[ap.snr] >= m_snrThreshold
    BY <1>6, <1>10, SnrAssumption
  <2>3. \A i \in 1..Len(others) : ~(ap.snr > others[i].snr)
    BY <1>8, <1>10
  <2>4. Ranked(Append(others, ap)) /\ Strong(Append(others, ap))
    BY <1>2, <2>2, <2>3, AppendedEntry
  <2>5. Append(others, ap) \in Seq(ApInfoEntry)
    BY <1>2, AppendProperties
  <2> QED
    BY <2>1, <2>4, <2>5 DEF r
<1>11. CASE ~(SnrDb[ap.snr] < m_snrThreshold) /\ I # {}
  <2> DEFINE k == Min(I)
  <2>1. k \in I /\ \A i \in I : k <= i
    BY <1>7, <1>11
  <2>2. k \in 1..Len(others)
    BY <1>5, <2>1
  <2>3. r = InsertAt(others, k, ap)
    BY <1>3, <1>4, <1>11, <2>2
  <2> HIDE DEF k
  <2>4. ap.snr > others[k].snr
    BY <1>8, <2>1, <2>2
  <2>5. \A i \in 1..Len(others) : i < k => ~(ap.snr > others[i].snr)
    BY <1>8, <2>1, <2>2
  <2>6. SnrDb[ap.snr] >= m_snrThreshold
    BY <1>6, <1>11, SnrAssumption
  <2>7. Ranked(InsertAt(others, k, ap)) /\ Strong(InsertAt(others, k, ap))
    BY <1>2, <2>2, <2>4, <2>5, <2>6, InsertedEntry
  <2>8. InsertAt(others, k, ap) \in Seq(ApInfoEntry)
    BY <1>2, <2>2, InsertAtFacts
  <2> QED
    BY <2>3, <2>7, <2>8 DEF r
<1> QED
  BY <1>9, <1>10, <1>11
=============================================================================
