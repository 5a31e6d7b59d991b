------------------------------ MODULE HostProofs ------------------------------
(***************************************************************************)
(* What a host calls, in three parts:                                      *)
(*   the registry, for every size of its tables and every set of drivers   *)
(*   the host adds;                                                        *)
(*   probe, remove and the interrupts of the eleven drivers, for every set *)
(*   of drivers and every number of receive buffers;                       *)
(*   the WiFi command queues and transmit rings, for every ring size,      *)
(*   every set of host threads and every number of calls.                  *)
(***************************************************************************)
EXTENDS WifiQueues, Registry, Lifecycle, RingArithmetic, SequenceTheorems

-------------------------------------------------------------------------------
(* The registry *)

\* The tables hold drivers, within their arrays, and what is left of
\* nc_drivers_init is the end of its list.
Tables ==
    /\ table \in [Classes -> Seq(Known)]
    /\ \A class \in Classes : Len(table[class]) <= MaxDrivers
    /\ \E k \in 1 .. 8 : toInit = SubSeq(BuiltIns, k, 7)
    /\ inits \in 0 .. MaxInits /\ walks \in 0 .. MaxWalks
    /\ fits \in Devices \cup {{}} /\ refused \subseteq Known
    /\ bound \in Known \cup {None}
    /\ walk \in [at : {"idle", "net", "wifi"}, index : Nat]

\* What was registered when the loop began still stands where it stood.
Grown ==
    /\ atStart \in [Classes -> Seq(Known)]
    /\ \A class \in Classes : IsPrefix(atStart[class], table[class])

\* A loop under way has been refused by all it has passed.
Passed ==
    /\ walk.at = "idle" => walk.index = 0
    /\ walk.at # "idle" =>
          /\ bound = None
          /\ walk.index <= Count(walk.at)
          /\ \A i \in 1 .. walk.index : table[walk.at][i] \in refused
    /\ walk.at = "wifi" => ToSet(atStart["net"]) \subseteq refused

RegistryInv == Tables /\ Grown /\ Passed /\ NobodySkipped

-------------------------------------------------------------------------------

\* The seven built-in drivers and those of the host have a class and a name.
LEMMA BuiltInsAre ==
    /\ BuiltIns \in Seq(Classes \X Known) /\ Len(BuiltIns) = 7
    /\ \A p \in HostDrivers : p[1] \in Classes /\ p[2] \in Known
    /\ None \notin Known
<1>1. \A p \in ToSet(BuiltIns) : p \in Classes \X Known /\ p[2] # None
  <2>1. \A p \in ToSet(BuiltIns) : p[2] \in Known
    BY DEF Known
  <2>2. \A p \in ToSet(BuiltIns) : p = <<p[1], p[2]>> /\ p[1] \in Classes /\ p[2] # None
    BY DEF ToSet, BuiltIns, Classes, None
  <2> QED
    BY <2>1, <2>2
<1>2. \A i \in 1 .. 7 : BuiltIns[i] \in ToSet(BuiltIns)
  BY DEF ToSet, BuiltIns
<1>3. BuiltIns \in Seq(Classes \X Known) /\ Len(BuiltIns) = 7
  <2>1. BuiltIns \in [1 .. 7 -> Classes \X Known]
    <3>1. BuiltIns = [i \in 1 .. 7 |-> BuiltIns[i]]
      BY DEF BuiltIns
    <3> QED
      BY <1>1, <1>2, <3>1
  <2>2. Len(BuiltIns) = 7
    BY DEF BuiltIns
  <2>3. BuiltIns \in Seq(Classes \X Known)
    BY <2>1, SeqDef
  <2> QED
    BY <2>2, <2>3
<1>4. \A p \in HostDrivers : p[1] \in Classes /\ p[2] \in Known /\ p[2] # None
  BY HostAssumption DEF Known
<1> QED
  BY <1>1, <1>3, <1>4 DEF Known

\* What is left of the list, and what its next call takes from it.
LEMMA Rest ==
    ASSUME NEW k \in 1 .. 8
    PROVE  /\ IsSuffix(SubSeq(BuiltIns, k, 7), BuiltIns)
           /\ SubSeq(BuiltIns, k, 7) # <<>> =>
                 /\ k + 1 \in 1 .. 8
                 /\ Tail(SubSeq(BuiltIns, k, 7)) = SubSeq(BuiltIns, k + 1, 7)
                 /\ Head(SubSeq(BuiltIns, k, 7))[1] \in Classes
                 /\ Head(SubSeq(BuiltIns, k, 7))[2] \in Known
<1> DEFINE B == BuiltIns
           P == Classes \X Known
           s == SubSeq(B, k, 7)
<1>1. B \in Seq(P) /\ Len(B) = 7
  BY BuiltInsAre
<1> HIDE DEF B, P
<1>2. B \in [1 .. 7 -> P] /\ \A i \in k .. 7 : B[i] \in P
  BY <1>1, LenProperties
<1>3. /\ s \in Seq(P) /\ Len(s) = 8 - k
      /\ \A i \in 1 .. 8 - k : s[i] = B[k + i - 1]
  <2>1. /\ s \in Seq(P) /\ Len(s) = (IF k <= 7 THEN 7 - k + 1 ELSE 0)
        /\ \A i \in 1 .. 7 - k + 1 : s[i] = B[k + i - 1]
    BY <1>2, SubSeqProperties
  <2> QED
    BY <2>1
<1>4. IsSuffix(s, B)
  <2> DEFINE rs == Reverse(s)
             rB == Reverse(B)
  <2>1. /\ rs = [i \in 1 .. 8 - k |-> s[8 - k - i + 1]]
        /\ rB = [i \in 1 .. 7 |-> B[7 - i + 1]]
    BY <1>1, <1>3 DEF Reverse
  <2>2. rs \in Seq(P) /\ rB \in Seq(P) /\ Len(rs) = 8 - k /\ Len(rB) = 7
    <3>1. rs \in [1 .. 8 - k -> P] /\ rB \in [1 .. 7 -> P]
      BY <1>2, <1>3, <2>1
    <3>2. rs \in Seq(P) /\ rB \in Seq(P)
      <4>1. 8 - k \in Nat /\ 7 \in Nat
        OBVIOUS
      <4> QED
        BY <3>1, <4>1, SeqDef
    <3> QED
      BY <2>1, <3>2, LenProperties
  <2>3. \A i \in 1 .. 8 - k : rs[i] = rB[i]
    BY <1>3, <2>1
  <2> HIDE DEF rs, rB
  <2>4. SubSeq(rs, 1, 8 - k) = SubSeq(rB, 1, 8 - k)
    BY <2>2, <2>3
  <2>5. Len(rs) <= Len(rB) /\ SubSeq(rs, 1, Len(rs)) = SubSeq(rB, 1, Len(rs))
    BY <2>2, <2>4
  <2> QED
    BY <2>5 DEF IsSuffix, IsPrefix, rs, rB
<1>5. ASSUME s # <<>>
      PROVE  /\ k + 1 \in 1 .. 8 /\ Tail(s) = SubSeq(B, k + 1, 7) /\ Head(s) \in P
  <2>1. k \in 1 .. 7
    BY <1>3, <1>5, EmptySeq
  <2> QED
    BY <1>1, <1>2, <2>1, HeadTailOfSubSeq
<1> QED
  BY <1>4, <1>5 DEF B, P

\* A register call appends, or leaves everything as it is.
LEMMA RegisteredIs ==
    ASSUME NEW class \in Classes, NEW d \in Known, Tables
    PROVE  /\ Registered(class, d) \in [Classes -> Seq(Known)]
           /\ \A c \in Classes :
                 /\ Len(Registered(class, d)[c]) <= MaxDrivers
                 /\ Len(table[c]) <= Len(Registered(class, d)[c])
                 /\ \A i \in 1 .. Len(table[c]) : Registered(class, d)[c][i] = table[c][i]
<1>1. /\ table \in [Classes -> Seq(Known)] /\ MaxDrivers \in Nat
      /\ \A c \in Classes : Len(table[c]) \in Nat /\ Len(table[c]) <= MaxDrivers
  BY CapacityAssumption, LenProperties DEF Tables
<1>2. CASE Count(class) >= MaxDrivers
  BY <1>1, <1>2 DEF Registered
<1>3. CASE ~(Count(class) >= MaxDrivers)
  <2> DEFINE longer == Append(table[class], d)
  <2>1. Registered(class, d) = [table EXCEPT ![class] = longer]
    BY <1>3 DEF Registered
  <2>2. /\ longer \in Seq(Known) /\ Len(longer) = Len(table[class]) + 1
        /\ \A i \in 1 .. Len(table[class]) : longer[i] = table[class][i]
    BY <1>1, AppendProperties
  <2>3. Len(longer) <= MaxDrivers
    BY <1>1, <1>3, <2>2 DEF Count
  <2> HIDE DEF longer
  <2> QED
    BY <1>1, <2>1, <2>2, <2>3
<1> QED
  BY <1>2, <1>3

\* The prefix order on tables, entry by entry.
LEMMA PrefixIs ==
    ASSUME NEW s \in Seq(Known), NEW t \in Seq(Known)
    PROVE  IsPrefix(s, t) <=>
              Len(s) <= Len(t) /\ \A i \in 1 .. Len(s) : s[i] = t[i]
<1>1. Len(s) \in Nat /\ Len(t) \in Nat
  BY LenProperties
<1>2. ASSUME IsPrefix(s, t) PROVE \A i \in 1 .. Len(s) : s[i] = t[i]
  <2>1. SubSeq(s, 1, Len(s)) = SubSeq(t, 1, Len(s)) /\ Len(s) <= Len(t)
    BY <1>2 DEF IsPrefix
  <2>2. \A i \in 1 .. Len(s) : SubSeq(s, 1, Len(s))[i] = s[i] /\ SubSeq(t, 1, Len(s))[i] = t[i]
    BY <1>1, <2>1
  <2> QED
    BY <2>1, <2>2
<1>3. ASSUME Len(s) <= Len(t), \A i \in 1 .. Len(s) : s[i] = t[i]
      PROVE  IsPrefix(s, t)
  <2>1. SubSeq(s, 1, Len(s)) = SubSeq(t, 1, Len(s))
    BY <1>1, <1>3
  <2> QED
    BY <1>3, <2>1 DEF IsPrefix
<1> QED
  BY <1>2, <1>3 DEF IsPrefix

-------------------------------------------------------------------------------

\* Nothing is registered and no walk is under way at first.
LEMMA RegistryInitInv == RegistryInit => RegistryInv
<1> SUFFICES ASSUME RegistryInit PROVE RegistryInv
  OBVIOUS
<1>1. \A c \in Classes : table[c] = <<>> /\ atStart[c] = <<>>
  BY DEF RegistryInit
<1>2. <<>> \in Seq(Known) /\ Len(<<>>) = 0
  BY EmptySeq
<1>3. table \in [Classes -> Seq(Known)] /\ atStart \in [Classes -> Seq(Known)]
  BY <1>2 DEF RegistryInit
<1>4. toInit = SubSeq(BuiltIns, 8, 7)
  <2>1. SubSeq(BuiltIns, 8, 7) = <<>>
    BY SubSeqEmpty
  <2> QED
    BY <2>1 DEF RegistryInit
<1>5. Tables
  <2>1. \A c \in Classes : Len(table[c]) <= MaxDrivers
    BY <1>1, <1>2, CapacityAssumption
  <2>2. \E k \in 1 .. 8 : toInit = SubSeq(BuiltIns, k, 7)
    BY <1>4
  <2> QED
    BY <1>3, <2>1, <2>2, RepeatAssumption DEF Tables, RegistryInit, NoWalk
<1>6. Grown
  BY <1>1, <1>2, <1>3, PrefixIs DEF Grown
<1>7. Passed
  BY DEF Passed, RegistryInit, NoWalk
<1>8. NobodySkipped
  BY <1>1, <1>2 DEF NobodySkipped, ToSet, Classes
<1> QED
  BY <1>5, <1>6, <1>7, <1>8 DEF RegistryInv

\* A step that only makes tables longer.
Grows ==
    /\ table' \in [Classes -> Seq(Known)]
    /\ \A c \in Classes :
          /\ Len(table'[c]) <= MaxDrivers /\ Len(table[c]) <= Len(table'[c])
          /\ \A i \in 1 .. Len(table[c]) : table'[c][i] = table[c][i]

\* Tables that grow keep what they had in front.
LEMMA GrowsIsPrefix ==
    ASSUME Tables, Grows
    PROVE  \A c \in Classes : IsPrefix(table[c], table'[c])
<1>1. \A c \in Classes : table[c] \in Seq(Known) /\ table'[c] \in Seq(Known)
  BY DEF Tables, Grows
<1> QED
  BY <1>1, PrefixIs DEF Grows

\* A step that lets the tables grow and leaves the walk alone.
LEMMA GrowsInv ==
    ASSUME RegistryInv, Grows, UNCHANGED walkVars,
           inits' \in 0 .. MaxInits, \E k \in 1 .. 8 : toInit' = SubSeq(BuiltIns, k, 7)
    PROVE  RegistryInv'
<1>1. Tables'
  BY DEF RegistryInv, Tables, Grows, walkVars
<1>2. Grown'
  <2>1. \A c \in Classes : /\ table[c] \in Seq(Known) /\ table'[c] \in Seq(Known)
                           /\ atStart[c] \in Seq(Known) /\ atStart' = atStart
    BY DEF RegistryInv, Tables, Grown, Grows, walkVars
  <2>2. ASSUME NEW c \in Classes PROVE IsPrefix(atStart[c], table'[c])
    <3>1. /\ Len(atStart[c]) <= Len(table[c])
          /\ \A i \in 1 .. Len(atStart[c]) : atStart[c][i] = table[c][i]
      BY <2>1, PrefixIs DEF RegistryInv, Grown
    <3>2. /\ Len(table[c]) <= Len(table'[c])
          /\ \A i \in 1 .. Len(table[c]) : table'[c][i] = table[c][i]
      BY DEF Grows
    <3>3. Len(atStart[c]) \in Nat /\ Len(table[c]) \in Nat /\ Len(table'[c]) \in Nat
      BY <2>1, LenProperties
    <3>4. /\ Len(atStart[c]) <= Len(table'[c])
          /\ \A i \in 1 .. Len(atStart[c]) : atStart[c][i] = table'[c][i]
      BY <3>1, <3>2, <3>3
    <3> QED
      BY <2>1, <3>4, PrefixIs
  <2>3. atStart' = atStart /\ atStart \in [Classes -> Seq(Known)]
    BY DEF RegistryInv, Grown, walkVars
  <2> QED
    BY <2>2, <2>3 DEF Grown
<1>3. Passed'
  <2>1. /\ walk' = walk /\ bound' = bound /\ refused' = refused /\ atStart' = atStart
        /\ walk.at \in {"idle", "net", "wifi"} /\ walk.index \in Nat
    BY DEF RegistryInv, Tables, walkVars
  <2>2. ASSUME walk.at # "idle"
        PROVE  /\ walk.index <= Len(table'[walk.at])
               /\ \A i \in 1 .. walk.index : table'[walk.at][i] \in refused
    <3>1. walk.at \in Classes
      BY <2>1, <2>2 DEF Classes
    <3>2. Len(table[walk.at]) \in Nat /\ Len(table'[walk.at]) \in Nat
      BY <3>1, LenProperties DEF RegistryInv, Tables, Grows
    <3>3. walk.index <= Len(table[walk.at])
      BY <2>2 DEF RegistryInv, Passed, Count
    <3>4. \A i \in 1 .. walk.index : table[walk.at][i] \in refused
      BY <2>2 DEF RegistryInv, Passed
    <3>5. /\ Len(table[walk.at]) <= Len(table'[walk.at])
          /\ \A i \in 1 .. Len(table[walk.at]) : table'[walk.at][i] = table[walk.at][i]
      BY <3>1 DEF Grows
    <3>6. ASSUME NEW i \in 1 .. walk.index PROVE table'[walk.at][i] \in refused
      <4>1. i \in 1 .. Len(table[walk.at]) /\ table[walk.at][i] \in refused
        BY <2>1, <3>2, <3>3, <3>4
      <4> QED
        BY <3>5, <4>1
    <3>7. walk.index <= Len(table'[walk.at])
      BY <2>1, <3>2, <3>3, <3>5
    <3> QED
      BY <3>6, <3>7
  <2> QED
    BY <2>1, <2>2 DEF RegistryInv, Passed, Count
<1>4. NobodySkipped'
  BY DEF RegistryInv, NobodySkipped, walkVars
<1> QED
  BY <1>1, <1>2, <1>3, <1>4 DEF RegistryInv

\* The host's registration and nc_drivers_init's next one are such steps.
LEMMA HostRegisterGrows ==
    ASSUME RegistryInv, NEW p \in HostDrivers, HostRegister(p)
    PROVE  Grows /\ UNCHANGED <<toInit, inits, walkVars>>
<1>1. p[1] \in Classes /\ p[2] \in Known /\ Tables
  BY BuiltInsAre DEF RegistryInv
<1>2. table' = Registered(p[1], p[2]) /\ UNCHANGED <<toInit, inits, walkVars>>
  BY DEF HostRegister
<1> QED
  BY <1>1, <1>2, RegisteredIs DEF Grows

\* The head of the list is registered, the rest stays to be done.
LEMMA DriversInitNextGrows ==
    ASSUME RegistryInv, DriversInitNext
    PROVE  /\ Grows /\ UNCHANGED <<inits, walkVars>>
           /\ \E k \in 1 .. 8 : toInit' = SubSeq(BuiltIns, k, 7)
<1>1. PICK k \in 1 .. 8 : toInit = SubSeq(BuiltIns, k, 7)
  BY DEF RegistryInv, Tables
<1>2. /\ k + 1 \in 1 .. 8 /\ Tail(toInit) = SubSeq(BuiltIns, k + 1, 7)
      /\ Head(toInit)[1] \in Classes /\ Head(toInit)[2] \in Known
  BY <1>1, Rest DEF DriversInitNext
<1>3. Grows
  BY <1>2, RegisteredIs DEF RegistryInv, DriversInitNext, Grows
<1> QED
  BY <1>2, <1>3 DEF DriversInitNext

\* Tables that stay have grown, by nothing.
LEMMA TablesStay ==
    ASSUME RegistryInv, table' = table
    PROVE  Grows
<1>1. table \in [Classes -> Seq(Known)] /\ \A c \in Classes : Len(table[c]) \in Nat
  BY LenProperties DEF RegistryInv, Tables
<1> QED
  BY <1>1 DEF RegistryInv, Tables, Grows

\* The list begins anew.
LEMMA DriversInitInv == RegistryInv /\ DriversInit => RegistryInv'
<1> SUFFICES ASSUME RegistryInv, DriversInit PROVE RegistryInv'
  OBVIOUS
<1>1. toInit' = SubSeq(BuiltIns, 1, 7)
  BY BuiltInsAre, SubSeqFull DEF DriversInit
<1>2. inits' \in 0 .. MaxInits
  BY RepeatAssumption DEF DriversInit, RegistryInv, Tables
<1>3. \E k \in 1 .. 8 : toInit' = SubSeq(BuiltIns, k, 7)
  BY <1>1
<1>4. Grows /\ UNCHANGED walkVars
  BY TablesStay DEF DriversInit
<1> QED
  BY <1>2, <1>3, <1>4, GrowsInv

\* A walk that begins has passed nobody and starts from the tables of now.
LEMMA WalkBeginInv ==
    ASSUME RegistryInv, NEW accepting \in Devices, WalkBegin(accepting)
    PROVE  RegistryInv'
<1>1. /\ walk' = [at |-> "net", index |-> 0] /\ walks' \in 0 .. MaxWalks
      /\ fits' \in Devices \cup {{}} /\ refused' = {} /\ bound' = None
      /\ atStart' = table /\ UNCHANGED <<table, toInit, inits>>
  BY RepeatAssumption DEF WalkBegin, RegistryInv, Tables
<1>2. Tables'
  BY <1>1 DEF RegistryInv, Tables
<1>3. Grown'
  <2>1. table \in [Classes -> Seq(Known)] /\ \A c \in Classes : Len(table[c]) \in Nat
    BY LenProperties DEF RegistryInv, Tables
  <2> QED
    BY <1>1, <2>1, PrefixIs DEF Grown
<1>4. Passed'
  <2>1. Len(table["net"]) \in Nat
    BY LenProperties DEF RegistryInv, Tables, Classes
  <2> QED
    BY <1>1, <2>1 DEF Passed, Count
<1>5. NobodySkipped'
  BY <1>1 DEF NobodySkipped, NoWalk
<1> QED
  BY <1>2, <1>3, <1>4, <1>5 DEF RegistryInv

\* The drivers of the tables are known, and none of them is None.
LEMMA WalkProbeInv == RegistryInv /\ WalkProbe => RegistryInv'
<1> SUFFICES ASSUME RegistryInv, WalkProbe PROVE RegistryInv'
  OBVIOUS
<1> DEFINE class == walk.at
           i == walk.index
           d == Get(class, i)
<1>1. /\ class \in Classes /\ class \in {"net", "wifi"} /\ i \in Nat
      /\ table[class] \in Seq(Known) /\ Len(table[class]) \in Nat
      /\ i < Len(table[class]) /\ bound = None
      /\ walk = [at |-> class, index |-> i]
  BY LenProperties DEF WalkProbe, RegistryInv, Tables, Passed, Count, Classes
<1>2. d = table[class][i + 1] /\ d \in Known /\ d # None
  <2>1. d = table[class][i + 1]
    BY <1>1 DEF Get, Count
  <2>2. i + 1 \in 1 .. Len(table[class])
    BY <1>1
  <2> QED
    BY <1>1, <2>1, <2>2, ElementOfSeq, BuiltInsAre
<1>3. UNCHANGED <<table, toInit, inits, walks, fits, atStart>>
  BY DEF WalkProbe
<1>4. Grown'
  BY <1>3 DEF RegistryInv, Grown
<1>5. CASE d \in fits
  <2>1. bound' = d /\ walk' = NoWalk /\ refused' = refused
    BY <1>5 DEF WalkProbe
  <2>2. Tables'
    BY <1>2, <1>3, <2>1 DEF RegistryInv, Tables, NoWalk
  <2>3. Passed' /\ NobodySkipped'
    BY <1>2, <2>1 DEF Passed, NobodySkipped, NoWalk
  <2> QED
    BY <1>4, <2>2, <2>3 DEF RegistryInv
<1>6. CASE d \notin fits
  <2>1. /\ bound' = bound /\ refused' = refused \cup {d}
        /\ walk' = [at |-> class, index |-> i + 1]
    BY <1>1, <1>6 DEF WalkProbe
  <2>2. Tables'
    <3>1. /\ walk' \in [at : {"idle", "net", "wifi"}, index : Nat]
          /\ refused' \subseteq Known /\ bound' \in Known \cup {None}
      BY <1>1, <1>2, <2>1 DEF RegistryInv, Tables
    <3> QED
      BY <1>3, <3>1 DEF RegistryInv, Tables
  <2>3. Passed'
    <3>1. \A j \in 1 .. i + 1 : table[class][j] \in refused'
      BY <1>1, <1>2, <2>1 DEF RegistryInv, Passed
    <3> QED
      BY <1>1, <1>3, <2>1, <3>1 DEF RegistryInv, Passed, Count
  <2>4. NobodySkipped'
    BY <1>1, <2>1 DEF NobodySkipped, NoWalk
  <2> QED
    BY <1>4, <2>2, <2>3, <2>4 DEF RegistryInv
<1> QED
  BY <1>5, <1>6

\* A class the loop has come to the end of has refused, to the last driver.
LEMMA WalkOnInv == RegistryInv /\ WalkOn => RegistryInv'
<1> SUFFICES ASSUME RegistryInv, WalkOn PROVE RegistryInv'
  OBVIOUS
<1>1. /\ UNCHANGED <<table, toInit, inits, walks, fits, atStart, refused, bound>>
      /\ walk.at \in Classes /\ walk.at \in {"net", "wifi"} /\ bound = None
      /\ walk.index >= Count(walk.at)
  BY DEF WalkOn, RegistryInv, Tables, Passed, Classes
<1>2. ToSet(atStart[walk.at]) \subseteq refused
  <2>1. atStart[walk.at] \in Seq(Known) /\ table[walk.at] \in Seq(Known)
    BY <1>1 DEF RegistryInv, Tables, Grown
  <2>2. /\ Len(atStart[walk.at]) \in Nat /\ Len(table[walk.at]) \in Nat
        /\ DOMAIN atStart[walk.at] = 1 .. Len(atStart[walk.at])
    BY <2>1, LenProperties
  <2>3. /\ Len(atStart[walk.at]) <= Len(table[walk.at])
        /\ \A i \in 1 .. Len(atStart[walk.at]) : atStart[walk.at][i] = table[walk.at][i]
    BY <1>1, <2>1, PrefixIs DEF RegistryInv, Grown
  <2>4. walk.index \in Nat /\ \A i \in 1 .. walk.index : table[walk.at][i] \in refused
    BY <1>1 DEF RegistryInv, Tables, Passed
  <2>5. \A i \in 1 .. Len(atStart[walk.at]) : atStart[walk.at][i] \in refused
    BY <1>1, <2>2, <2>3, <2>4 DEF Count
  <2> QED
    BY <2>2, <2>5 DEF ToSet
<1>3. Grown'
  BY <1>1 DEF RegistryInv, Grown
<1>4. CASE walk.at = "net"
  <2>1. walk' = [at |-> "wifi", index |-> 0]
    BY <1>4 DEF WalkOn
  <2>2. Tables'
    BY <1>1, <2>1 DEF RegistryInv, Tables
  <2>3. Len(table["wifi"]) \in Nat
    BY LenProperties DEF RegistryInv, Tables, Classes
  <2>4. Passed' /\ NobodySkipped'
    BY <1>1, <1>2, <1>4, <2>1, <2>3 DEF Passed, NobodySkipped, NoWalk, Count
  <2> QED
    BY <1>3, <2>2, <2>4 DEF RegistryInv
<1>5. CASE walk.at = "wifi"
  <2>1. walk' = NoWalk
    BY <1>5 DEF WalkOn
  <2>2. Tables'
    BY <1>1, <2>1 DEF RegistryInv, Tables, NoWalk
  <2>3. ToSet(atStart["net"]) \subseteq refused /\ ToSet(atStart["wifi"]) \subseteq refused
    BY <1>2, <1>5 DEF RegistryInv, Passed
  <2>4. Passed' /\ NobodySkipped'
    BY <1>1, <2>1, <2>3 DEF Passed, NobodySkipped, NoWalk
  <2> QED
    BY <1>3, <2>2, <2>4 DEF RegistryInv
<1> QED
  BY <1>1, <1>4, <1>5

\* Every step, and stuttering.
LEMMA RegistryNextInv == RegistryInv /\ [RegistryNext]_registryVars => RegistryInv'
<1> SUFFICES ASSUME RegistryInv, [RegistryNext]_registryVars PROVE RegistryInv'
  OBVIOUS
<1>1. ASSUME NEW p \in HostDrivers, HostRegister(p) PROVE RegistryInv'
  <2>1. Grows /\ UNCHANGED <<toInit, inits, walkVars>>
    BY <1>1, HostRegisterGrows
  <2> QED
    BY <2>1, GrowsInv DEF RegistryInv, Tables
<1>2. CASE DriversInitNext
  <2>1. inits' \in 0 .. MaxInits
    BY <1>2 DEF DriversInitNext, RegistryInv, Tables
  <2> QED
    BY <1>2, <2>1, DriversInitNextGrows, GrowsInv
<1>3. CASE UNCHANGED registryVars
  BY <1>3, TablesStay, GrowsInv DEF registryVars, walkVars, RegistryInv, Tables
<1> QED
  BY <1>1, <1>2, <1>3, DriversInitInv, WalkBeginInv, WalkProbeInv, WalkOnInv DEF RegistryNext

\* RegistryInv holds throughout.
LEMMA RegistryInvariance == RegistrySpec => []RegistryInv
<1>1. RegistryInit => RegistryInv
  BY RegistryInitInv
<1>2. RegistryInv /\ [RegistryNext]_registryVars => RegistryInv'
  BY RegistryNextInv
<1> QED
  BY <1>1, <1>2, PTL DEF RegistrySpec

\* Whatever the size of the tables and whatever the host registers, no table
\* outgrows its array and nothing but drivers gets into it.
THEOREM RegistryTypeCorrect == RegistrySpec => []RegistryTypeOK
<1>1. RegistryInv => RegistryTypeOK
  <2> SUFFICES ASSUME RegistryInv PROVE RegistryTypeOK
    OBVIOUS
  <2>1. ASSUME NEW c \in Classes
        PROVE  /\ Len(table[c]) \in Nat /\ Len(table[c]) <= MaxDrivers
               /\ ToSet(table[c]) \subseteq Known
    <3>1. table[c] \in Seq(Known) /\ Len(table[c]) <= MaxDrivers
      BY DEF RegistryInv, Tables
    <3>2. /\ DOMAIN table[c] = 1 .. Len(table[c])
          /\ \A i \in 1 .. Len(table[c]) : table[c][i] \in Known
      BY <3>1, LenProperties
    <3> QED
      BY <3>1, <3>2, LenProperties DEF ToSet
  <2>2. IsSuffix(toInit, BuiltIns)
    BY Rest DEF RegistryInv, Tables
  <2>3. walk \in [at : {"idle", "net", "wifi"}, index : 0 .. MaxDrivers]
    <3>1. walk.index \in Nat /\ walk.at \in {"idle", "net", "wifi"} /\ MaxDrivers \in Nat
      BY CapacityAssumption DEF RegistryInv, Tables
    <3>2. walk.at # "idle" => walk.at \in Classes /\ walk.index <= Len(table[walk.at])
      BY <3>1 DEF RegistryInv, Passed, Count, Classes
    <3>3. walk.index \in 0 .. MaxDrivers
      BY <2>1, <3>1, <3>2 DEF RegistryInv, Passed
    <3> QED
      BY <3>3 DEF RegistryInv, Tables
  <2> QED
    BY <2>1, <2>2, <2>3 DEF RegistryTypeOK, RegistryInv, Tables
<1> QED
  BY <1>1, RegistryInvariance, PTL

\* A probe loop that ends without a driver was refused by every network and
\* WiFi driver that was registered when it began: registrations in between
\* hide nobody, whatever the size of the tables.
THEOREM RegistryNobodySkipped == RegistrySpec => []NobodySkipped
<1>1. RegistryInv => NobodySkipped
  BY DEF RegistryInv
<1> QED
  BY <1>1, RegistryInvariance, PTL

\* An index that a host has read names the same driver from then on.
THEOREM RegistryIndexesStay == RegistrySpec => IndexesStay
<1>1. RegistryInv /\ [RegistryNext]_registryVars =>
          [\A class \in Classes : IsPrefix(table[class], table'[class])]_registryVars
  <2> SUFFICES ASSUME RegistryInv, RegistryNext
               PROVE  \A class \in Classes : IsPrefix(table[class], table'[class])
    OBVIOUS
  <2>1. Grows
    <3>1. ASSUME NEW p \in HostDrivers, HostRegister(p) PROVE Grows
      BY <3>1, HostRegisterGrows
    <3>2. CASE DriversInitNext
      BY <3>2, DriversInitNextGrows
    <3>3. ASSUME table' = table PROVE Grows
      BY <3>3, TablesStay
    <3>4. (DriversInit \/ WalkProbe \/ WalkOn) => table' = table
      BY DEF DriversInit, WalkProbe, WalkOn
    <3>5. ASSUME NEW accepting \in Devices, WalkBegin(accepting) PROVE table' = table
      BY <3>5 DEF WalkBegin
    <3> QED
      BY <3>1, <3>2, <3>3, <3>4, <3>5 DEF RegistryNext
  <2> QED
    BY <2>1, GrowsIsPrefix DEF RegistryInv
<1> QED
  BY <1>1, RegistryInvariance, PTL DEF RegistrySpec, IndexesStay

-------------------------------------------------------------------------------
(* From probe to remove: what lists of steps have in common *)

Things == DmaMemory \cup {"priv", "firmware", "cmd_queue"}

\* What a driver always has between probe and remove: all but the firmware,
\* which it may have to do without.
Lasting == Things \ {"firmware"}

ProbeKinds == {"take", "fill", "pair", "firmware", "check", "await", "reset",
               "start", "stop", "irq", "mask", "publish"}
RemoveKinds == {"mask", "irqfree", "stop", "free", "unpublish"}

\* The kinds of steps that have an error path.
Failing == {"take", "fill", "pair", "check", "await"}

Steps == [do : ProbeKinds \cup RemoveKinds,
          what : Things \cup {"buffers", "rings", "device", "engine", "handler",
                              "none", "off", "ones", "data"},
          undo : Seq(Things)]

Occurs(s, do) == \E i \in DOMAIN s : s[i].do = do
Releases(s, x) == \E i \in DOMAIN s : s[i].do = "free" /\ s[i].what = x
CanFail(s) == \E i \in DOMAIN s : s[i].do \in Failing

Named(names, x) == \E k \in DOMAIN names : names[k] = x
Once(names) == \A j, k \in DOMAIN names : names[j] = names[k] => j = k

\* What a step that succeeds adds to what is held, and what the steps before
\* the i-th add.
Adds(step) == IF step.do = "take" THEN {step.what}
              ELSE IF step.do = "pair" THEN {"rx_ring", "tx_ring"} ELSE {}

AddedBefore(s, i, x) == \E j \in DOMAIN s : j < i /\ x \in Adds(s[j])

\* s is a probe of driver d, whose remove is r, or the rest of one, begun with
\* has: the error path of the i-th step frees what there is then, once, ...
FailsClean(s, has, i) ==
    /\ Once(s[i].undo)
    /\ \A x \in Lasting : Named(s[i].undo, x) <=> x \in has \/ AddedBefore(s, i, x)
    /\ \A x \in Adds(s[i]) : x \in Lasting /\ ~Named(s[i].undo, x)
    /\ "firmware" \in has => Named(s[i].undo, "firmware")
    /\ \A j \in DOMAIN s : s[j].do = "firmware" /\ j < i =>
          Named(s[i].undo, "firmware")

\* ... the end leaves what remove frees ...
EndsWhole(s, has, r) ==
    /\ \A i \in DOMAIN s : s[i].do = "publish" <=> i = Len(s)
    /\ \A i \in DOMAIN s, x \in Lasting : s[i].do = "publish" =>
          (Releases(r, x) <=> x \in has \/ AddedBefore(s, i, x))
    /\ Occurs(s, "fill") => Releases(r, "buffers")
    /\ "firmware" \in has \/ Occurs(s, "firmware") => Releases(r, "firmware")

\* ... and the buffers, the engine (but for nvme's) and the interrupts come
\* when nothing after them can fail.
SwitchesLast(s, r, d) ==
    /\ \A i, j \in DOMAIN s : s[j].do \in Failing =>
          /\ s[i].do = "irq" => j < i
          /\ s[i].do = "start" /\ d # "nvme" => j < i
          /\ s[i].do = "fill" => j <= i
    /\ Occurs(s, "start") => Occurs(r, "stop") \/ d = "virtio"
    /\ \A i \in DOMAIN s : s[i].do = "mask" => s[i].what = "off"

ProbeList(s, has, r, d) ==
    /\ \A i \in DOMAIN s : s[i].do \in ProbeKinds
    /\ \A i \in DOMAIN s : s[i].do \in Failing => FailsClean(s, has, i)
    /\ EndsWhole(s, has, r) /\ SwitchesLast(s, r, d)

Quiet == {"e1000", "e1000e", "ahci"}

\* s is a remove, or the rest of one: each thing is freed once, and after the
\* handler is gone and the engine stopped.
RemoveList(s, d) ==
    /\ \A i \in DOMAIN s : s[i].do \in RemoveKinds
    /\ \A i \in DOMAIN s : s[i].do = "unpublish" <=> i = Len(s)
    /\ \A i, j \in DOMAIN s : s[i].do = "free" =>
          /\ s[i].what \in Things \cup {"buffers"}
          /\ s[j].do = "free" /\ s[j].what = s[i].what => j = i
          /\ s[j].do \in {"irqfree", "stop"} => j < i
    /\ d \in Quiet => \A i \in DOMAIN s : s[i].do = "mask" => s[i].what = "off"

\* Probe p and remove r of a driver d.
Paired(p, r, d) ==
    /\ p \in Seq(Steps) /\ p # <<>> /\ r \in Seq(Steps)
    /\ ProbeList(p, {}, r, d) /\ RemoveList(r, d)
    /\ Releases(r, "buffers") => Occurs(p, "fill")
    /\ Releases(r, "priv") /\ Occurs(r, "irqfree")
    /\ d \in Quiet => Occurs(r, "mask")

(* The invariant *)

\* The driver has all it took in its probe.
Whole ==
    LET r == Code[drv].remove IN
    /\ \A x \in Lasting : x \in held <=> Releases(r, x)
    /\ "firmware" \in held => Releases(r, "firmware")
    /\ filled = IF Releases(r, "buffers") THEN Buffers ELSE 0

LifecycleTypes == LifecycleTypeOK /\ todo \in Seq(Steps)

Unbound ==
    phase = "none" =>
       /\ todo = <<>> /\ held = {} /\ filled = 0 /\ ~handler /\ ~data /\ ~isr
       /\ engine => drv \in {"virtio", "nvme"}
       /\ drv \in Quiet => ~enabled

\* The rest of the probe suits what is held.
Probing ==
    LET r == Code[drv].remove IN
    phase = "probe" =>
       /\ ProbeList(todo, held, r, drv) /\ todo # <<>>
       /\ ~data /\ ~isr
       /\ handler => ~CanFail(todo)
       /\ engine => drv \in {"virtio", "nvme"} \/ ~CanFail(todo)
       /\ drv \in Quiet /\ enabled => ~CanFail(todo)
       /\ Releases(r, "buffers") => Occurs(todo, "fill") \/ filled = Buffers
       /\ filled # 0 => Releases(r, "buffers") /\ (CanFail(todo) => Head(todo).do = "fill")

\* The rest of the error path frees what is held.
Undoing ==
    phase = "undo" =>
       /\ ~handler /\ ~data /\ ~isr /\ filled = 0
       /\ \A i \in DOMAIN todo : todo[i].do = "free" /\ todo[i].what \in Things
       /\ \A i, j \in DOMAIN todo : todo[i].what = todo[j].what => i = j
       /\ \A x \in Lasting : x \in held <=> Releases(todo, x)
       /\ "firmware" \in held => Releases(todo, "firmware")
       /\ engine => drv \in {"virtio", "nvme"}
       /\ drv \in Quiet => ~enabled

Serving == phase = "bound" => todo = <<>> /\ data /\ Whole

\* The rest of the remove frees what is held, and the driver is whole while
\* the handler or the engine's stop is still to come.
Removing ==
    phase = "remove" =>
       /\ RemoveList(todo, drv) /\ data
       /\ \A x \in Lasting : x \in held <=> Releases(todo, x)
       /\ "firmware" \in held => Releases(todo, "firmware")
       /\ filled # 0 => Releases(todo, "buffers")
       /\ Occurs(todo, "irqfree") \/ Occurs(todo, "stop") => Whole
       /\ handler => Occurs(todo, "irqfree")
       /\ engine => drv = "virtio" \/ Occurs(todo, "stop")
       /\ drv \in Quiet /\ enabled => Occurs(todo, "mask")

Switched ==
    /\ engine => drv = "virtio" \/ Occurs(Code[drv].remove, "stop")
    /\ isr => handler /\ data

LifecycleInv ==
    LifecycleTypes /\ Unbound /\ Probing /\ Undoing /\ Serving /\ Removing /\ Switched

-------------------------------------------------------------------------------
(* The eleven drivers: probe and remove match. *)

\* The steps in full, for this section.
USE DEF Take, Fill, Pair, Firmware, Check, Reset, Start, Stop, Await, Irq, IrqNoMask,
        IrqFree, MaskOff, MaskOnes, Publish, Unpublish, Free, Step

\* r8169, and then the other drivers: each step, each error path.
LEMMA R8169Paired ==
    ASSUME NEW d, d \in {"r8169"}
    PROVE  Paired(R8169Probe, R8169Remove, d)
<1> USE DEF R8169Probe, R8169Remove
<1>1. R8169Probe \in Seq(Steps) /\ R8169Remove \in Seq(Steps)
  BY SMTT(60) DEF Steps, Things, ProbeKinds, RemoveKinds, DmaMemory
<1>2. ASSUME NEW i \in DOMAIN R8169Probe, R8169Probe[i].do \in Failing
      PROVE  FailsClean(R8169Probe, {}, i)
  <2>0. i \in {1, 3, 4, 5}
    BY <1>2, SMTT(60) DEF Failing
  <2>1. FailsClean(R8169Probe, {}, 1)
    BY SMTT(60)
    DEF FailsClean, Once, Named, Adds, AddedBefore, Lasting, Things, DmaMemory
  <2>2. FailsClean(R8169Probe, {}, 3)
    BY SMTT(60)
    DEF FailsClean, Once, Named, Adds, AddedBefore, Lasting, Things, DmaMemory
  <2>3. FailsClean(R8169Probe, {}, 4)
    BY SMTT(60)
    DEF FailsClean, Once, Named, Adds, AddedBefore, Lasting, Things, DmaMemory
  <2>4. FailsClean(R8169Probe, {}, 5)
    BY SMTT(60)
    DEF FailsClean, Once, Named, Adds, AddedBefore, Lasting, Things, DmaMemory
  <2>. QED
    BY <2>0, <2>1, <2>2, <2>3, <2>4
<1>3. EndsWhole(R8169Probe, {}, R8169Remove)
  BY SMTT(60) DEF EndsWhole, Adds, AddedBefore, Lasting, Things, DmaMemory, Releases, Occurs
<1>4. ProbeList(R8169Probe, {}, R8169Remove, d)
  BY <1>2, <1>3, SMTT(60) DEF ProbeList, ProbeKinds, SwitchesLast, Failing, Occurs
<1>5. RemoveList(R8169Remove, d)
  BY SMTT(60) DEF RemoveList, RemoveKinds, Quiet, Things, DmaMemory
<1>6. /\ R8169Probe # <<>>
      /\ Releases(R8169Remove, "buffers") => Occurs(R8169Probe, "fill")
      /\ Releases(R8169Remove, "priv") /\ Occurs(R8169Remove, "irqfree")
      /\ d \in Quiet => Occurs(R8169Remove, "mask")
  BY SMTT(60) DEF Quiet, Releases, Occurs
<1> HIDE DEF R8169Probe, R8169Remove
<1>. QED
  BY <1>1, <1>4, <1>5, <1>6 DEF Paired

\* r8125 takes its rings in the other order.
LEMMA R8125Paired ==
    ASSUME NEW d, d \in {"r8125"}
    PROVE  Paired(R8125Probe, R8125Remove, d)
<1> USE DEF R8125Probe, R8125Remove
<1>1. R8125Probe \in Seq(Steps) /\ R8125Remove \in Seq(Steps)
  BY SMTT(60) DEF Steps, Things, ProbeKinds, RemoveKinds, DmaMemory
<1>2. ASSUME NEW i \in DOMAIN R8125Probe, R8125Probe[i].do \in Failing
      PROVE  FailsClean(R8125Probe, {}, i)
  <2>0. i \in {1, 3, 4, 5}
    BY <1>2, SMTT(60) DEF Failing
  <2>1. FailsClean(R8125Probe, {}, 1)
    BY SMTT(60)
    DEF FailsClean, Once, Named, Adds, AddedBefore, Lasting, Things, DmaMemory
  <2>2. FailsClean(R8125Probe, {}, 3)
    BY SMTT(60)
    DEF FailsClean, Once, Named, Adds, AddedBefore, Lasting, Things, DmaMemory
  <2>3. FailsClean(R8125Probe, {}, 4)
    BY SMTT(60)
    DEF FailsClean, Once, Named, Adds, AddedBefore, Lasting, Things, DmaMemory
  <2>4. FailsClean(R8125Probe, {}, 5)
    BY SMTT(60)
    DEF FailsClean, Once, Named, Adds, AddedBefore, Lasting, Things, DmaMemory
  <2>. QED
    BY <2>0, <2>1, <2>2, <2>3, <2>4
<1>3. EndsWhole(R8125Probe, {}, R8125Remove)
  BY SMTT(60) DEF EndsWhole, Adds, AddedBefore, Lasting, Things, DmaMemory, Releases, Occurs
<1>4. ProbeList(R8125Probe, {}, R8125Remove, d)
  BY <1>2, <1>3, SMTT(60) DEF ProbeList, ProbeKinds, SwitchesLast, Failing, Occurs
<1>5. RemoveList(R8125Remove, d)
  BY SMTT(60) DEF RemoveList, RemoveKinds, Quiet, Things, DmaMemory
<1>6. /\ R8125Probe # <<>>
      /\ Releases(R8125Remove, "buffers") => Occurs(R8125Probe, "fill")
      /\ Releases(R8125Remove, "priv") /\ Occurs(R8125Remove, "irqfree")
      /\ d \in Quiet => Occurs(R8125Remove, "mask")
  BY SMTT(60) DEF Quiet, Releases, Occurs
<1> HIDE DEF R8125Probe, R8125Remove
<1>. QED
  BY <1>1, <1>4, <1>5, <1>6 DEF Paired

\* e1000 has r8169's probe and a remove that masks all causes.
LEMMA E1000Paired ==
    ASSUME NEW d, d \in {"e1000"}
    PROVE  Paired(R8169Probe, E1000Remove, d)
<1> USE DEF R8169Probe, E1000Remove
<1>1. R8169Probe \in Seq(Steps) /\ E1000Remove \in Seq(Steps)
  BY SMTT(60) DEF Steps, Things, ProbeKinds, RemoveKinds, DmaMemory
<1>2. ASSUME NEW i \in DOMAIN R8169Probe, R8169Probe[i].do \in Failing
      PROVE  FailsClean(R8169Probe, {}, i)
  <2>0. i \in {1, 3, 4, 5}
    BY <1>2, SMTT(60) DEF Failing
  <2>1. FailsClean(R8169Probe, {}, 1)
    BY SMTT(60)
    DEF FailsClean, Once, Named, Adds, AddedBefore, Lasting, Things, DmaMemory
  <2>2. FailsClean(R8169Probe, {}, 3)
    BY SMTT(60)
    DEF FailsClean, Once, Named, Adds, AddedBefore, Lasting, Things, DmaMemory
  <2>3. FailsClean(R8169Probe, {}, 4)
    BY SMTT(60)
    DEF FailsClean, Once, Named, Adds, AddedBefore, Lasting, Things, DmaMemory
  <2>4. FailsClean(R8169Probe, {}, 5)
    BY SMTT(60)
    DEF FailsClean, Once, Named, Adds, AddedBefore, Lasting, Things, DmaMemory
  <2>. QED
    BY <2>0, <2>1, <2>2, <2>3, <2>4
<1>3. EndsWhole(R8169Probe, {}, E1000Remove)
  BY SMTT(60) DEF EndsWhole, Adds, AddedBefore, Lasting, Things, DmaMemory, Releases, Occurs
<1>4. ProbeList(R8169Probe, {}, E1000Remove, d)
  BY <1>2, <1>3, SMTT(60) DEF ProbeList, ProbeKinds, SwitchesLast, Failing, Occurs
<1>5. RemoveList(E1000Remove, d)
  BY SMTT(60) DEF RemoveList, RemoveKinds, Quiet, Things, DmaMemory
<1>6. /\ R8169Probe # <<>>
      /\ Releases(E1000Remove, "buffers") => Occurs(R8169Probe, "fill")
      /\ Releases(E1000Remove, "priv") /\ Occurs(E1000Remove, "irqfree")
      /\ d \in Quiet => Occurs(E1000Remove, "mask")
  BY SMTT(60) DEF Quiet, Releases, Occurs
<1> HIDE DEF R8169Probe, E1000Remove
<1>. QED
  BY <1>1, <1>4, <1>5, <1>6 DEF Paired

\* e1000e masks them in its probe as well.
LEMMA E1000ePaired ==
    ASSUME NEW d, d \in {"e1000e"}
    PROVE  Paired(E1000eProbe, E1000Remove, d)
<1> USE DEF E1000eProbe, E1000Remove
<1>1. E1000eProbe \in Seq(Steps) /\ E1000Remove \in Seq(Steps)
  BY SMTT(60) DEF Steps, Things, ProbeKinds, RemoveKinds, DmaMemory
<1>2. ASSUME NEW i \in DOMAIN E1000eProbe, E1000eProbe[i].do \in Failing
      PROVE  FailsClean(E1000eProbe, {}, i)
  <2>0. i \in {1, 4, 5, 6}
    BY <1>2, SMTT(60) DEF Failing
  <2>1. FailsClean(E1000eProbe, {}, 1)
    BY SMTT(60)
    DEF FailsClean, Once, Named, Adds, AddedBefore, Lasting, Things, DmaMemory
  <2>2. FailsClean(E1000eProbe, {}, 4)
    BY SMTT(60)
    DEF FailsClean, Once, Named, Adds, AddedBefore, Lasting, Things, DmaMemory
  <2>3. FailsClean(E1000eProbe, {}, 5)
    BY SMTT(60)
    DEF FailsClean, Once, Named, Adds, AddedBefore, Lasting, Things, DmaMemory
  <2>4. FailsClean(E1000eProbe, {}, 6)
    BY SMTT(60)
    DEF FailsClean, Once, Named, Adds, AddedBefore, Lasting, Things, DmaMemory
  <2>. QED
    BY <2>0, <2>1, <2>2, <2>3, <2>4
<1>3. EndsWhole(E1000eProbe, {}, E1000Remove)
  BY SMTT(60) DEF EndsWhole, Adds, AddedBefore, Lasting, Things, DmaMemory, Releases, Occurs
<1>4. ProbeList(E1000eProbe, {}, E1000Remove, d)
  BY <1>2, <1>3, SMTT(60) DEF ProbeList, ProbeKinds, SwitchesLast, Failing, Occurs
<1>5. RemoveList(E1000Remove, d)
  BY SMTT(60) DEF RemoveList, RemoveKinds, Quiet, Things, DmaMemory
<1>6. /\ E1000eProbe # <<>>
      /\ Releases(E1000Remove, "buffers") => Occurs(E1000eProbe, "fill")
      /\ Releases(E1000Remove, "priv") /\ Occurs(E1000Remove, "irqfree")
      /\ d \in Quiet => Occurs(E1000Remove, "mask")
  BY SMTT(60) DEF Quiet, Releases, Occurs
<1> HIDE DEF E1000eProbe, E1000Remove
<1>. QED
  BY <1>1, <1>4, <1>5, <1>6 DEF Paired

\* virtio-net takes its rings as a pair and never stops its device.
LEMMA VirtioNetPaired ==
    ASSUME NEW d, d \in {"virtio"}
    PROVE  Paired(VirtioNetProbe, VirtioNetRemove, d)
<1> USE DEF VirtioNetProbe, VirtioNetRemove
<1>1. VirtioNetProbe \in Seq(Steps) /\ VirtioNetRemove \in Seq(Steps)
  BY SMTT(60) DEF Steps, Things, ProbeKinds, RemoveKinds, DmaMemory
<1>2. ASSUME NEW i \in DOMAIN VirtioNetProbe, VirtioNetProbe[i].do \in Failing
      PROVE  FailsClean(VirtioNetProbe, {}, i)
  <2>0. i \in {1, 3, 4}
    BY <1>2, SMTT(60) DEF Failing
  <2>1. FailsClean(VirtioNetProbe, {}, 1)
    BY SMTT(60)
    DEF FailsClean, Once, Named, Adds, AddedBefore, Lasting, Things, DmaMemory
  <2>2. FailsClean(VirtioNetProbe, {}, 3)
    BY SMTT(60)
    DEF FailsClean, Once, Named, Adds, AddedBefore, Lasting, Things, DmaMemory
  <2>3. FailsClean(VirtioNetProbe, {}, 4)
    BY SMTT(60)
    DEF FailsClean, Once, Named, Adds, AddedBefore, Lasting, Things, DmaMemory
  <2>. QED
    BY <2>0, <2>1, <2>2, <2>3
<1>3. EndsWhole(VirtioNetProbe, {}, VirtioNetRemove)
  BY SMTT(60) DEF EndsWhole, Adds, AddedBefore, Lasting, Things, DmaMemory, Releases, Occurs
<1>4. ProbeList(VirtioNetProbe, {}, VirtioNetRemove, d)
  BY <1>2, <1>3, SMTT(60) DEF ProbeList, ProbeKinds, SwitchesLast, Failing, Occurs
<1>5. RemoveList(VirtioNetRemove, d)
  BY SMTT(60) DEF RemoveList, RemoveKinds, Quiet, Things, DmaMemory
<1>6. /\ VirtioNetProbe # <<>>
      /\ Releases(VirtioNetRemove, "buffers") => Occurs(VirtioNetProbe, "fill")
      /\ Releases(VirtioNetRemove, "priv") /\ Occurs(VirtioNetRemove, "irqfree")
      /\ d \in Quiet => Occurs(VirtioNetRemove, "mask")
  BY SMTT(60) DEF Quiet, Releases, Occurs
<1> HIDE DEF VirtioNetProbe, VirtioNetRemove
<1>. QED
  BY <1>1, <1>4, <1>5, <1>6 DEF Paired

\* vmxnet3 has four rings to give back.
LEMMA Vmxnet3Paired ==
    ASSUME NEW d, d \in {"vmxnet3"}
    PROVE  Paired(Vmxnet3Probe, Vmxnet3Remove, d)
<1> USE DEF Vmxnet3Probe, Vmxnet3Remove
<1>1. Vmxnet3Probe \in Seq(Steps) /\ Vmxnet3Remove \in Seq(Steps)
  BY SMTT(60) DEF Steps, Things, ProbeKinds, RemoveKinds, DmaMemory
<1>2. ASSUME NEW i \in DOMAIN Vmxnet3Probe, Vmxnet3Probe[i].do \in Failing
      PROVE  FailsClean(Vmxnet3Probe, {}, i)
  <2>0. i \in {1, 2, 3, 4, 5, 6, 7}
    BY <1>2, SMTT(60) DEF Failing
  <2>1. FailsClean(Vmxnet3Probe, {}, 1)
    BY SMTT(60)
    DEF FailsClean, Once, Named, Adds, AddedBefore, Lasting, Things, DmaMemory
  <2>2. FailsClean(Vmxnet3Probe, {}, 2)
    BY SMTT(60)
    DEF FailsClean, Once, Named, Adds, AddedBefore, Lasting, Things, DmaMemory
  <2>3. FailsClean(Vmxnet3Probe, {}, 3)
    BY SMTT(60)
    DEF FailsClean, Once, Named, Adds, AddedBefore, Lasting, Things, DmaMemory
  <2>4. FailsClean(Vmxnet3Probe, {}, 4)
    <3>1. \A x : Named(Vmxnet3Probe[4].undo, x) <=>
              x \in {"priv", "tx_desc_ring"}
      BY SMTT(60) DEF Named
    <3>2. \A x : AddedBefore(Vmxnet3Probe, 4, x) <=>
              x \in {"priv", "tx_desc_ring"}
      BY SMTT(60) DEF AddedBefore, Adds
    <3>3. Once(Vmxnet3Probe[4].undo)
      BY SMTT(60) DEF Once
    <3>4. Adds(Vmxnet3Probe[4]) = {"tx_comp_ring"}
      BY SMTT(60) DEF Adds
    <3>5. \A j \in DOMAIN Vmxnet3Probe : Vmxnet3Probe[j].do # "firmware"
      BY SMTT(60)
    <3> HIDE DEF Vmxnet3Probe
    <3>. QED
      BY <3>1, <3>2, <3>3, <3>4, <3>5, SMTT(60)
      DEF FailsClean, Lasting, Things, DmaMemory
  <2>5. FailsClean(Vmxnet3Probe, {}, 5)
    <3>1. \A x : Named(Vmxnet3Probe[5].undo, x) <=>
              x \in {"priv", "tx_desc_ring", "tx_comp_ring"}
      BY SMTT(60) DEF Named
    <3>2. \A x : AddedBefore(Vmxnet3Probe, 5, x) <=>
              x \in {"priv", "tx_desc_ring", "tx_comp_ring"}
      BY SMTT(60) DEF AddedBefore, Adds
    <3>3. Once(Vmxnet3Probe[5].undo)
      BY SMTT(60) DEF Once
    <3>4. Adds(Vmxnet3Probe[5]) = {"rx_desc_ring"}
      BY SMTT(60) DEF Adds
    <3>5. \A j \in DOMAIN Vmxnet3Probe : Vmxnet3Probe[j].do # "firmware"
      BY SMTT(60)
    <3> HIDE DEF Vmxnet3Probe
    <3>. QED
      BY <3>1, <3>2, <3>3, <3>4, <3>5, SMTT(60)
      DEF FailsClean, Lasting, Things, DmaMemory
  <2>6. FailsClean(Vmxnet3Probe, {}, 6)
    <3>1. \A x : Named(Vmxnet3Probe[6].undo, x) <=>
              x \in {"priv", "tx_desc_ring", "tx_comp_ring", "rx_desc_ring"}
      BY SMTT(60) DEF Named
    <3>2. \A x : AddedBefore(Vmxnet3Probe, 6, x) <=>
              x \in {"priv", "tx_desc_ring", "tx_comp_ring", "rx_desc_ring"}
      BY SMTT(60) DEF AddedBefore, Adds
    <3>3. Once(Vmxnet3Probe[6].undo)
      BY SMTT(60) DEF Once
    <3>4. Adds(Vmxnet3Probe[6]) = {"rx_comp_ring"}
      BY SMTT(60) DEF Adds
    <3>5. \A j \in DOMAIN Vmxnet3Probe : Vmxnet3Probe[j].do # "firmware"
      BY SMTT(60)
    <3> HIDE DEF Vmxnet3Probe
    <3>. QED
      BY <3>1, <3>2, <3>3, <3>4, <3>5, SMTT(60)
      DEF FailsClean, Lasting, Things, DmaMemory
  <2>7. FailsClean(Vmxnet3Probe, {}, 7)
    <3>1. \A x : Named(Vmxnet3Probe[7].undo, x) <=>
              x \in {"priv", "tx_desc_ring", "tx_comp_ring", "rx_desc_ring",
                     "rx_comp_ring"}
      BY SMTT(60) DEF Named
    <3>2. \A x : AddedBefore(Vmxnet3Probe, 7, x) <=>
              x \in {"priv", "tx_desc_ring", "tx_comp_ring", "rx_desc_ring",
                     "rx_comp_ring"}
      BY SMTT(60) DEF AddedBefore, Adds
    <3>3. Once(Vmxnet3Probe[7].undo)
      BY SMTT(60) DEF Once
    <3>4. Adds(Vmxnet3Probe[7]) = {}
      BY SMTT(60) DEF Adds
    <3>5. \A j \in DOMAIN Vmxnet3Probe : Vmxnet3Probe[j].do # "firmware"
      BY SMTT(60)
    <3> HIDE DEF Vmxnet3Probe
    <3>. QED
      BY <3>1, <3>2, <3>3, <3>4, <3>5, SMTT(60)
      DEF FailsClean, Lasting, Things, DmaMemory
  <2>. QED
    BY <2>0, <2>1, <2>2, <2>3, <2>4, <2>5, <2>6, <2>7
<1>3. EndsWhole(Vmxnet3Probe, {}, Vmxnet3Remove)
  BY SMTT(60) DEF EndsWhole, Adds, AddedBefore, Lasting, Things, DmaMemory, Releases, Occurs
<1>4. ProbeList(Vmxnet3Probe, {}, Vmxnet3Remove, d)
  BY <1>2, <1>3, SMTT(60) DEF ProbeList, ProbeKinds, SwitchesLast, Failing, Occurs
<1>5. RemoveList(Vmxnet3Remove, d)
  BY SMTT(60) DEF RemoveList, RemoveKinds, Quiet, Things, DmaMemory
<1>6. /\ Vmxnet3Probe # <<>>
      /\ Releases(Vmxnet3Remove, "buffers") => Occurs(Vmxnet3Probe, "fill")
      /\ Releases(Vmxnet3Remove, "priv") /\ Occurs(Vmxnet3Remove, "irqfree")
      /\ d \in Quiet => Occurs(Vmxnet3Remove, "mask")
  BY SMTT(60) DEF Quiet, Releases, Occurs
<1> HIDE DEF Vmxnet3Probe, Vmxnet3Remove
<1>. QED
  BY <1>1, <1>4, <1>5, <1>6 DEF Paired

\* The three WiFi drivers, with or without firmware.
LEMMA IwlwifiPaired ==
    ASSUME NEW d, d \in {"iwlwifi", "ath9k", "rtl8188"}
    PROVE  Paired(IwlwifiProbe, IwlwifiRemove, d)
<1> USE DEF IwlwifiProbe, IwlwifiRemove
<1>1. IwlwifiProbe \in Seq(Steps) /\ IwlwifiRemove \in Seq(Steps)
  BY SMTT(60) DEF Steps, Things, ProbeKinds, RemoveKinds, DmaMemory
<1>2. ASSUME NEW i \in DOMAIN IwlwifiProbe, IwlwifiProbe[i].do \in Failing
      PROVE  FailsClean(IwlwifiProbe, {}, i)
  <2>0. i \in {1, 3, 4, 5}
    BY <1>2, SMTT(60) DEF Failing
  <2>1. FailsClean(IwlwifiProbe, {}, 1)
    BY SMTT(60)
    DEF FailsClean, Once, Named, Adds, AddedBefore, Lasting, Things, DmaMemory
  <2>2. FailsClean(IwlwifiProbe, {}, 3)
    BY SMTT(60)
    DEF FailsClean, Once, Named, Adds, AddedBefore, Lasting, Things, DmaMemory
  <2>3. FailsClean(IwlwifiProbe, {}, 4)
    BY SMTT(60)
    DEF FailsClean, Once, Named, Adds, AddedBefore, Lasting, Things, DmaMemory
  <2>4. FailsClean(IwlwifiProbe, {}, 5)
    BY SMTT(60)
    DEF FailsClean, Once, Named, Adds, AddedBefore, Lasting, Things, DmaMemory
  <2>. QED
    BY <2>0, <2>1, <2>2, <2>3, <2>4
<1>3. EndsWhole(IwlwifiProbe, {}, IwlwifiRemove)
  BY SMTT(60) DEF EndsWhole, Adds, AddedBefore, Lasting, Things, DmaMemory, Releases, Occurs
<1>4. ProbeList(IwlwifiProbe, {}, IwlwifiRemove, d)
  BY <1>2, <1>3, SMTT(60) DEF ProbeList, ProbeKinds, SwitchesLast, Failing, Occurs
<1>5. RemoveList(IwlwifiRemove, d)
  BY SMTT(60) DEF RemoveList, RemoveKinds, Quiet, Things, DmaMemory
<1>6. /\ IwlwifiProbe # <<>>
      /\ Releases(IwlwifiRemove, "buffers") => Occurs(IwlwifiProbe, "fill")
      /\ Releases(IwlwifiRemove, "priv") /\ Occurs(IwlwifiRemove, "irqfree")
      /\ d \in Quiet => Occurs(IwlwifiRemove, "mask")
  BY SMTT(60) DEF Quiet, Releases, Occurs
<1> HIDE DEF IwlwifiProbe, IwlwifiRemove
<1>. QED
  BY <1>1, <1>4, <1>5, <1>6 DEF Paired

\* nvme waits for its controller with the engine switched on.
LEMMA NvmePaired ==
    ASSUME NEW d, d \in {"nvme"}
    PROVE  Paired(NvmeProbe, NvmeRemove, d)
<1> USE DEF NvmeProbe, NvmeRemove
<1>1. NvmeProbe \in Seq(Steps) /\ NvmeRemove \in Seq(Steps)
  BY SMTT(60) DEF Steps, Things, ProbeKinds, RemoveKinds, DmaMemory
<1>2. ASSUME NEW i \in DOMAIN NvmeProbe, NvmeProbe[i].do \in Failing
      PROVE  FailsClean(NvmeProbe, {}, i)
  <2>0. i \in {1, 2, 4, 5, 6, 8}
    BY <1>2, SMTT(60) DEF Failing
  <2>1. FailsClean(NvmeProbe, {}, 1)
    BY SMTT(60)
    DEF FailsClean, Once, Named, Adds, AddedBefore, Lasting, Things, DmaMemory
  <2>2. FailsClean(NvmeProbe, {}, 2)
    BY SMTT(60)
    DEF FailsClean, Once, Named, Adds, AddedBefore, Lasting, Things, DmaMemory
  <2>3. FailsClean(NvmeProbe, {}, 4)
    BY SMTT(60)
    DEF FailsClean, Once, Named, Adds, AddedBefore, Lasting, Things, DmaMemory
  <2>4. FailsClean(NvmeProbe, {}, 5)
    BY SMTT(60)
    DEF FailsClean, Once, Named, Adds, AddedBefore, Lasting, Things, DmaMemory
  <2>5. FailsClean(NvmeProbe, {}, 6)
    BY SMTT(60)
    DEF FailsClean, Once, Named, Adds, AddedBefore, Lasting, Things, DmaMemory
  <2>6. FailsClean(NvmeProbe, {}, 8)
    <3>1. \A x : Named(NvmeProbe[8].undo, x) <=> x \in {"priv", "sq", "cq"}
      BY SMTT(60) DEF Named
    <3>2. \A x : AddedBefore(NvmeProbe, 8, x) <=> x \in {"priv", "sq", "cq"}
      BY SMTT(60) DEF AddedBefore, Adds
    <3>3. Once(NvmeProbe[8].undo)
      BY SMTT(60) DEF Once
    <3>4. Adds(NvmeProbe[8]) = {}
      BY SMTT(60) DEF Adds
    <3>5. \A j \in DOMAIN NvmeProbe : NvmeProbe[j].do # "firmware"
      BY SMTT(60)
    <3> HIDE DEF NvmeProbe
    <3>. QED
      BY <3>1, <3>2, <3>3, <3>4, <3>5, SMTT(60)
      DEF FailsClean, Lasting, Things, DmaMemory
  <2>. QED
    BY <2>0, <2>1, <2>2, <2>3, <2>4, <2>5, <2>6
<1>3. EndsWhole(NvmeProbe, {}, NvmeRemove)
  BY SMTT(60) DEF EndsWhole, Adds, AddedBefore, Lasting, Things, DmaMemory, Releases, Occurs
<1>4. ProbeList(NvmeProbe, {}, NvmeRemove, d)
  BY <1>2, <1>3, SMTT(60) DEF ProbeList, ProbeKinds, SwitchesLast, Failing, Occurs
<1>5. RemoveList(NvmeRemove, d)
  BY SMTT(60) DEF RemoveList, RemoveKinds, Quiet, Things, DmaMemory
<1>6. /\ NvmeProbe # <<>>
      /\ Releases(NvmeRemove, "buffers") => Occurs(NvmeProbe, "fill")
      /\ Releases(NvmeRemove, "priv") /\ Occurs(NvmeRemove, "irqfree")
      /\ d \in Quiet => Occurs(NvmeRemove, "mask")
  BY SMTT(60) DEF Quiet, Releases, Occurs
<1> HIDE DEF NvmeProbe, NvmeRemove
<1>. QED
  BY <1>1, <1>4, <1>5, <1>6 DEF Paired

\* ahci frees on failure what is there, whichever allocation it was.
LEMMA AhciPaired ==
    ASSUME NEW d, d \in {"ahci"}
    PROVE  Paired(AhciProbe, AhciRemove, d)
<1> USE DEF AhciProbe, AhciRemove
<1>1. AhciProbe \in Seq(Steps) /\ AhciRemove \in Seq(Steps)
  BY SMTT(60) DEF Steps, Things, ProbeKinds, RemoveKinds, DmaMemory
<1>2. ASSUME NEW i \in DOMAIN AhciProbe, AhciProbe[i].do \in Failing
      PROVE  FailsClean(AhciProbe, {}, i)
  <2>0. i \in {1, 2, 3, 4, 5}
    BY <1>2, SMTT(60) DEF Failing
  <2>1. FailsClean(AhciProbe, {}, 1)
    BY SMTT(60)
    DEF FailsClean, Once, Named, Adds, AddedBefore, Lasting, Things, DmaMemory
  <2>2. FailsClean(AhciProbe, {}, 2)
    BY SMTT(60)
    DEF FailsClean, Once, Named, Adds, AddedBefore, Lasting, Things, DmaMemory
  <2>3. FailsClean(AhciProbe, {}, 3)
    BY SMTT(60)
    DEF FailsClean, Once, Named, Adds, AddedBefore, Lasting, Things, DmaMemory
  <2>4. FailsClean(AhciProbe, {}, 4)
    BY SMTT(60)
    DEF FailsClean, Once, Named, Adds, AddedBefore, Lasting, Things, DmaMemory
  <2>5. FailsClean(AhciProbe, {}, 5)
    BY SMTT(60)
    DEF FailsClean, Once, Named, Adds, AddedBefore, Lasting, Things, DmaMemory
  <2>. QED
    BY <2>0, <2>1, <2>2, <2>3, <2>4, <2>5
<1>3. EndsWhole(AhciProbe, {}, AhciRemove)
  BY SMTT(60) DEF EndsWhole, Adds, AddedBefore, Lasting, Things, DmaMemory, Releases, Occurs
<1>4. ProbeList(AhciProbe, {}, AhciRemove, d)
  BY <1>2, <1>3, SMTT(60) DEF ProbeList, ProbeKinds, SwitchesLast, Failing, Occurs
<1>5. RemoveList(AhciRemove, d)
  BY SMTT(60) DEF RemoveList, RemoveKinds, Quiet, Things, DmaMemory
<1>6. /\ AhciProbe # <<>>
      /\ Releases(AhciRemove, "buffers") => Occurs(AhciProbe, "fill")
      /\ Releases(AhciRemove, "priv") /\ Occurs(AhciRemove, "irqfree")
      /\ d \in Quiet => Occurs(AhciRemove, "mask")
  BY SMTT(60) DEF Quiet, Releases, Occurs
<1> HIDE DEF AhciProbe, AhciRemove
<1>. QED
  BY <1>1, <1>4, <1>5, <1>6 DEF Paired

HIDE DEF Take, Fill, Pair, Firmware, Check, Reset, Start, Stop, Await, Irq, IrqNoMask,
         IrqFree, MaskOff, MaskOnes, Publish, Unpublish, Free, Step

\* So all eleven.
LEMMA CodePaired ==
    \A d \in DOMAIN Code : Paired(Code[d].probe, Code[d].remove, d)
<1>1. DOMAIN Code = {"r8169", "r8125", "e1000", "e1000e", "virtio", "vmxnet3", "iwlwifi",
                     "ath9k", "rtl8188", "ahci", "nvme"}
  BY DEF Code
<1>2. /\ Code["r8169"].probe = R8169Probe /\ Code["r8169"].remove = R8169Remove
      /\ Code["r8125"].probe = R8125Probe /\ Code["r8125"].remove = R8125Remove
      /\ Code["e1000"].probe = R8169Probe /\ Code["e1000"].remove = E1000Remove
      /\ Code["e1000e"].probe = E1000eProbe /\ Code["e1000e"].remove = E1000Remove
      /\ Code["virtio"].probe = VirtioNetProbe /\ Code["virtio"].remove = VirtioNetRemove
      /\ Code["vmxnet3"].probe = Vmxnet3Probe /\ Code["vmxnet3"].remove = Vmxnet3Remove
  BY DEF Code, Driver, E1000Probe, E1000eRemove
<1>3. /\ \A d \in {"iwlwifi", "ath9k", "rtl8188"} :
            Code[d].probe = IwlwifiProbe /\ Code[d].remove = IwlwifiRemove
      /\ Code["ahci"].probe = AhciProbe /\ Code["ahci"].remove = AhciRemove
      /\ Code["nvme"].probe = NvmeProbe /\ Code["nvme"].remove = NvmeRemove
  BY DEF Code, Driver, Ath9kProbe, Ath9kRemove, Rtl8188Probe, Rtl8188Remove
<1>. QED
  BY <1>1, <1>2, <1>3, R8169Paired, R8125Paired, E1000Paired, E1000ePaired,
     VirtioNetPaired, Vmxnet3Paired, IwlwifiPaired, NvmePaired, AhciPaired

-------------------------------------------------------------------------------
(* Steps taken off a list *)

\* A list of steps without its head.
LEMMA StepsTail ==
    ASSUME NEW s \in Seq(Steps), s # <<>>
    PROVE  /\ Tail(s) \in Seq(Steps) /\ Head(s) = s[1] /\ s[1] \in Steps
           /\ Len(s) \in Nat \ {0} /\ Len(Tail(s)) = Len(s) - 1
           /\ DOMAIN s = 1 .. Len(s) /\ DOMAIN Tail(s) = 1 .. Len(s) - 1
           /\ \A i \in DOMAIN Tail(s) : i + 1 \in DOMAIN s /\ Tail(s)[i] = s[i + 1]
           /\ \A i \in DOMAIN s : i # 1 => i - 1 \in DOMAIN Tail(s) /\ s[i] = Tail(s)[i - 1]
  BY HeadTailProperties, SMT

\* What occurs in it, what it frees and whether it can fail.
LEMMA TailOccurs ==
    ASSUME NEW s \in Seq(Steps), s # <<>>
    PROVE  /\ \A do : Occurs(s, do) <=> Head(s).do = do \/ Occurs(Tail(s), do)
           /\ \A x : Releases(s, x) <=> (Head(s).do = "free" /\ Head(s).what = x)
                                        \/ Releases(Tail(s), x)
           /\ CanFail(s) <=> Head(s).do \in Failing \/ CanFail(Tail(s))
<1> DEFINE t == Tail(s)
<1>1. /\ Head(s) = s[1] /\ 1 \in DOMAIN s
      /\ \A i \in DOMAIN t : i + 1 \in DOMAIN s /\ t[i] = s[i + 1]
      /\ \A i \in DOMAIN s : i # 1 => i - 1 \in DOMAIN t /\ s[i] = t[i - 1]
  BY StepsTail
<1> HIDE DEF t
<1>2. \A do : Occurs(s, do) <=> Head(s).do = do \/ Occurs(t, do)
  BY <1>1 DEF Occurs
<1>3. \A x : Releases(s, x) <=> (Head(s).do = "free" /\ Head(s).what = x) \/ Releases(t, x)
  BY <1>1 DEF Releases
<1>4. CanFail(s) <=> Head(s).do \in Failing \/ CanFail(t)
  BY <1>1 DEF CanFail
<1>. QED
  BY <1>2, <1>3, <1>4 DEF t

\* What is added before a place in the rest of a list.
LEMMA TailAddedBefore ==
    ASSUME NEW s \in Seq(Steps), s # <<>>, NEW i \in DOMAIN Tail(s), NEW x
    PROVE  AddedBefore(s, i + 1, x) <=> x \in Adds(Head(s)) \/ AddedBefore(Tail(s), i, x)
<1> DEFINE t == Tail(s)
<1>1. /\ Head(s) = s[1] /\ 1 \in DOMAIN s /\ i \in Nat \ {0}
      /\ DOMAIN s \subseteq Nat /\ DOMAIN t \subseteq Nat
      /\ \A j \in DOMAIN t : j + 1 \in DOMAIN s /\ t[j] = s[j + 1]
      /\ \A j \in DOMAIN s : j # 1 => j - 1 \in DOMAIN t /\ s[j] = t[j - 1]
  BY StepsTail
<1> HIDE DEF t
<1>2. ASSUME AddedBefore(s, i + 1, x)
      PROVE  x \in Adds(Head(s)) \/ AddedBefore(t, i, x)
  <2>1. PICK j \in DOMAIN s : j < i + 1 /\ x \in Adds(s[j])
    BY <1>2 DEF AddedBefore
  <2>2. CASE j = 1
    BY <2>1, <2>2, <1>1
  <2>3. CASE j # 1
    <3>1. j - 1 \in DOMAIN t /\ s[j] = t[j - 1] /\ j - 1 < i
      BY <2>1, <2>3, <1>1
    <3>. QED
      BY <2>1, <3>1 DEF AddedBefore
  <2>. QED
    BY <2>2, <2>3
<1>3. ASSUME x \in Adds(Head(s))
      PROVE  AddedBefore(s, i + 1, x)
  <2>1. 1 < i + 1
    BY <1>1
  <2>. QED
    BY <1>1, <1>3, <2>1 DEF AddedBefore
<1>4. ASSUME AddedBefore(t, i, x)
      PROVE  AddedBefore(s, i + 1, x)
  <2>1. PICK j \in DOMAIN t : j < i /\ x \in Adds(t[j])
    BY <1>4 DEF AddedBefore
  <2>2. j + 1 \in DOMAIN s /\ t[j] = s[j + 1] /\ j + 1 < i + 1
    BY <2>1, <1>1
  <2>. QED
    BY <2>1, <2>2 DEF AddedBefore
<1>. QED
  BY <1>2, <1>3, <1>4 DEF t

\* The first step has nothing before it.
LEMMA NothingBefore ==
    ASSUME NEW s \in Seq(Steps), NEW x
    PROVE  ~AddedBefore(s, 1, x)
<1>1. DOMAIN s \subseteq Nat \ {0}
  BY DEF AddedBefore
<1>. QED
  BY <1>1 DEF AddedBefore

\* The rest of a probe suits what is held once its first step succeeded.
LEMMA ProbeListTail ==
    ASSUME NEW s \in Seq(Steps), s # <<>>, NEW r, NEW d, NEW has, NEW now,
           ProbeList(s, has, r, d), Head(s).do # "publish",
           \A x \in Lasting : x \in now <=> x \in has \/ x \in Adds(Head(s)),
           "firmware" \in now => "firmware" \in has \/ Head(s).do = "firmware"
    PROVE  ProbeList(Tail(s), now, r, d) /\ Tail(s) # <<>>
<1> DEFINE t == Tail(s)
<1>1. /\ t \in Seq(Steps) /\ Head(s) = s[1] /\ 1 \in DOMAIN s
      /\ Len(s) \in Nat \ {0} /\ Len(t) = Len(s) - 1
      /\ DOMAIN s = 1 .. Len(s) /\ DOMAIN t = 1 .. Len(s) - 1
      /\ \A i \in DOMAIN t : i + 1 \in DOMAIN s /\ t[i] = s[i + 1]
  BY StepsTail
<1>2. \A i \in DOMAIN t : \A x :
          AddedBefore(s, i + 1, x) <=> x \in Adds(Head(s)) \/ AddedBefore(t, i, x)
  BY TailAddedBefore
<1>3. \A do : Occurs(s, do) <=> Head(s).do = do \/ Occurs(t, do)
  BY TailOccurs
<1> HIDE DEF t
<1>4. \A i \in DOMAIN t : t[i].do \in ProbeKinds
  BY <1>1 DEF ProbeList
<1>5. ASSUME NEW i \in DOMAIN t, t[i].do \in Failing
      PROVE  FailsClean(t, now, i)
  <2>1. FailsClean(s, has, i + 1) /\ t[i] = s[i + 1]
    BY <1>1, <1>5 DEF ProbeList
  <2>2. \A x \in Lasting : Named(t[i].undo, x) <=> x \in now \/ AddedBefore(t, i, x)
    BY <1>2, <2>1 DEF FailsClean
  <2>3. \A j \in DOMAIN t : t[j].do = "firmware" /\ j < i => Named(t[i].undo, "firmware")
    BY <1>1, <2>1 DEF FailsClean
  <2>4. "firmware" \in now => Named(t[i].undo, "firmware")
    <3>1. Head(s).do = "firmware" => Named(s[i + 1].undo, "firmware")
      <4>1. 1 < i + 1
        BY <1>1
      <4>. QED
        BY <1>1, <2>1, <4>1 DEF FailsClean
    <3>. QED
      BY <2>1, <3>1 DEF FailsClean
  <2>. QED
    BY <2>1, <2>2, <2>3, <2>4 DEF FailsClean
<1>6. EndsWhole(t, now, r)
  <2>1. \A i \in DOMAIN t : t[i].do = "publish" <=> i = Len(t)
    BY <1>1 DEF ProbeList, EndsWhole
  <2>2. ASSUME NEW i \in DOMAIN t, NEW x \in Lasting, t[i].do = "publish"
        PROVE  Releases(r, x) <=> x \in now \/ AddedBefore(t, i, x)
    <3>1. Releases(r, x) <=> x \in has \/ AddedBefore(s, i + 1, x)
      BY <1>1, <2>2 DEF ProbeList, EndsWhole
    <3>. QED
      BY <3>1, <1>2
  <2>3. Occurs(t, "fill") => Releases(r, "buffers")
    BY <1>3 DEF ProbeList, EndsWhole
  <2>4. "firmware" \in now \/ Occurs(t, "firmware") => Releases(r, "firmware")
    BY <1>3 DEF ProbeList, EndsWhole
  <2>. QED
    BY <2>1, <2>2, <2>3, <2>4 DEF EndsWhole
<1>7. SwitchesLast(t, r, d)
  <2>1. ASSUME NEW i \in DOMAIN t, NEW j \in DOMAIN t, t[j].do \in Failing
        PROVE  /\ t[i].do = "irq" => j < i
               /\ t[i].do = "start" /\ d # "nvme" => j < i
               /\ t[i].do = "fill" => j <= i
    <3>1. /\ s[i + 1].do = "irq" => j + 1 < i + 1
          /\ s[i + 1].do = "start" /\ d # "nvme" => j + 1 < i + 1
          /\ s[i + 1].do = "fill" => j + 1 <= i + 1
      BY <1>1, <2>1 DEF ProbeList, SwitchesLast
    <3>. QED
      BY <3>1, <1>1
  <2>2. Occurs(t, "start") => Occurs(r, "stop") \/ d = "virtio"
    BY <1>3 DEF ProbeList, SwitchesLast
  <2>3. \A i \in DOMAIN t : t[i].do = "mask" => t[i].what = "off"
    BY <1>1 DEF ProbeList, SwitchesLast
  <2>. QED
    BY <2>1, <2>2, <2>3 DEF SwitchesLast
<1>8. t # <<>>
  <2>1. Len(s) # 1
    BY <1>1 DEF ProbeList, EndsWhole
  <2>. QED
    BY <1>1, <2>1
<1>. QED
  BY <1>4, <1>5, <1>6, <1>7, <1>8 DEF ProbeList, t

\* The rest of a remove is one.
LEMMA RemoveListTail ==
    ASSUME NEW s \in Seq(Steps), s # <<>>, NEW d,
           RemoveList(s, d), Head(s).do # "unpublish"
    PROVE  RemoveList(Tail(s), d)
<1> DEFINE t == Tail(s)
<1>1. /\ Len(t) = Len(s) - 1 /\ DOMAIN s \subseteq Nat /\ DOMAIN t \subseteq Nat
      /\ \A i \in DOMAIN t : i + 1 \in DOMAIN s /\ t[i] = s[i + 1] /\ Len(s) \in Nat
  BY StepsTail
<1> HIDE DEF t
<1>2. /\ \A i \in DOMAIN t : t[i].do \in RemoveKinds
      /\ d \in Quiet => \A i \in DOMAIN t : t[i].do = "mask" => t[i].what = "off"
  BY <1>1 DEF RemoveList
<1>3. \A i \in DOMAIN t : t[i].do = "unpublish" <=> i = Len(t)
  <2> TAKE i \in DOMAIN t
  <2>1. s[i + 1].do = "unpublish" <=> i + 1 = Len(s)
    BY <1>1 DEF RemoveList
  <2>. QED
    BY <1>1, <2>1
<1>4. ASSUME NEW i \in DOMAIN t, NEW j \in DOMAIN t, t[i].do = "free"
      PROVE  /\ t[i].what \in Things \cup {"buffers"}
             /\ t[j].do = "free" /\ t[j].what = t[i].what => j = i
             /\ t[j].do \in {"irqfree", "stop"} => j < i
  <2>1. /\ s[i + 1].what \in Things \cup {"buffers"}
        /\ s[j + 1].do = "free" /\ s[j + 1].what = s[i + 1].what => j + 1 = i + 1
        /\ s[j + 1].do \in {"irqfree", "stop"} => j + 1 < i + 1
    BY <1>1, <1>4 DEF RemoveList
  <2>. QED
    BY <1>1, <2>1
<1>. QED
  BY <1>2, <1>3, <1>4 DEF RemoveList, t

\* What an error path frees is the list of the failing step.
LEMMA FreesIs ==
    ASSUME NEW names \in Seq(Things)
    PROVE  /\ Frees(names) \in Seq(Steps)
           /\ DOMAIN Frees(names) = DOMAIN names
           /\ \A i \in DOMAIN names :
                 Frees(names)[i].do = "free" /\ Frees(names)[i].what = names[i]
           /\ \A x : Releases(Frees(names), x) <=> Named(names, x)
<1>1. \A i \in DOMAIN names : Free(names[i]) \in Steps
  BY DEF Free, Step, Steps, RemoveKinds
<1>2. /\ DOMAIN Frees(names) = DOMAIN names
      /\ \A i \in DOMAIN names :
            Frees(names)[i].do = "free" /\ Frees(names)[i].what = names[i]
  BY DEF Frees, Free, Step
<1>3. Frees(names) \in Seq(Steps)
  BY <1>1 DEF Frees
<1>. QED
  BY <1>2, <1>3 DEF Releases, Named

-------------------------------------------------------------------------------
(* The actions *)

\* Which phases a step of some kind belongs to.
LEMMA PhaseOfStep ==
    ASSUME LifecycleInv, todo # <<>>
    PROVE  /\ phase = "probe" => Head(todo).do \in ProbeKinds
           /\ phase = "remove" => Head(todo).do \in RemoveKinds
           /\ phase = "undo" => Head(todo).do = "free"
           /\ phase \in {"probe", "undo", "remove"}
<1>1. todo \in Seq(Steps) /\ phase \in {"none", "probe", "undo", "bound", "remove"}
  BY DEF LifecycleInv, LifecycleTypes, LifecycleTypeOK
<1>2. Head(todo) = todo[1] /\ 1 \in DOMAIN todo
  BY <1>1, StepsTail
<1>. QED
  BY <1>1, <1>2 DEF LifecycleInv, Unbound, Probing, Undoing, Serving, Removing, ProbeList,
                    RemoveList

\* The driver of this device is one of them.
LEMMA CodeOfDriver ==
    ASSUME LifecycleInv
    PROVE  drv \in Drivers /\ Paired(Code[drv].probe, Code[drv].remove, drv)
  BY CodePaired, DriverAssumption DEF LifecycleInv, LifecycleTypes, LifecycleTypeOK

\* No driver is bound at first.
LEMMA InitLifecycle == LifecycleInit => LifecycleInv
<1> SUFFICES ASSUME LifecycleInit PROVE LifecycleInv
  OBVIOUS
<1>1. LifecycleTypes
  <2>1. {engine, handler, enabled, data, line, isr} \subseteq BOOLEAN
    <3>1. enabled \in BOOLEAN
      BY DEF LifecycleInit
    <3>. QED
      BY <3>1, Zenon DEF LifecycleInit
  <2>2. todo \in Seq(Steps) /\ filled \in 0 .. Buffers
    BY BufferAssumption DEF LifecycleInit
  <2>. QED
    BY <2>1, <2>2 DEF LifecycleInit, LifecycleTypes, LifecycleTypeOK
<1>. QED
  BY <1>1 DEF LifecycleInit, LifecycleInv, Unbound, Probing, Undoing, Serving, Removing,
              Switched, Quiet

\* A probe begins with nothing held.
LEMMA ProbeDeviceInv ==
    ASSUME LifecycleInv, ProbeDevice
    PROVE  LifecycleInv'
<1>1. /\ phase = "none" /\ phase' = "probe" /\ todo' = Code[drv].probe
      /\ drv' = drv /\ held' = held /\ filled' = filled /\ engine' = engine
      /\ handler' = handler /\ enabled' = enabled /\ data' = data
      /\ line' = line /\ isr' = isr
  BY DEF ProbeDevice, Enter, resources, switches
<1>2. /\ held = {} /\ filled = 0 /\ ~handler /\ ~data /\ ~isr
      /\ engine => drv \in {"virtio", "nvme"}
      /\ drv \in Quiet => ~enabled
  BY <1>1 DEF LifecycleInv, Unbound
<1>3. Paired(Code[drv].probe, Code[drv].remove, drv)
  BY CodeOfDriver
<1>4. LifecycleTypes'
  BY <1>1, <1>3 DEF LifecycleInv, LifecycleTypes, LifecycleTypeOK, Paired
<1>5. Probing'
  BY <1>1, <1>2, <1>3 DEF Probing, Paired
<1>6. Switched'
  BY <1>1 DEF LifecycleInv, Switched
<1>. QED
  BY <1>1, <1>4, <1>5, <1>6 DEF LifecycleInv, Unbound, Undoing, Serving, Removing

\* A remove begins with all that it frees.
LEMMA RemoveDeviceInv ==
    ASSUME LifecycleInv, RemoveDevice
    PROVE  LifecycleInv'
<1>1. /\ phase = "bound" /\ phase' = "remove" /\ todo' = Code[drv].remove
      /\ drv' = drv /\ held' = held /\ filled' = filled /\ engine' = engine
      /\ handler' = handler /\ enabled' = enabled /\ data' = data
      /\ line' = line /\ isr' = isr
  BY DEF RemoveDevice, Enter, resources, switches
<1>2. data /\ Whole
  BY <1>1 DEF LifecycleInv, Serving
<1>3. Paired(Code[drv].probe, Code[drv].remove, drv)
  BY CodeOfDriver
<1>4. LifecycleTypes'
  BY <1>1, <1>3 DEF LifecycleInv, LifecycleTypes, LifecycleTypeOK, Paired
<1>5. Switched'
  BY <1>1 DEF LifecycleInv, Switched
<1>6. Removing'
  <2>1. Whole'
    BY <1>1, <1>2 DEF Whole
  <2>. QED
    BY <1>1, <1>2, <1>3, <2>1 DEF Removing, Paired, Whole, LifecycleInv, Switched
<1>. QED
  BY <1>1, <1>4, <1>5, <1>6 DEF LifecycleInv, Unbound, Undoing, Serving, Probing

\* A step of a probe that goes on with the next.
LEMMA ProbeGoesOn ==
    ASSUME LifecycleInv, phase = "probe", GoOn, Head(todo).do # "publish",
           drv' = drv, data' = data, isr' = isr, LifecycleTypeOK',
           \A x \in Lasting : x \in held' <=> x \in held \/ x \in Adds(Head(todo)),
           "firmware" \in held' => "firmware" \in held \/ Head(todo).do = "firmware",
           filled' = filled, Head(todo).do = "fill" => filled = Buffers,
           handler' => handler \/ Head(todo).do = "irq",
           engine' => engine \/ Head(todo).do = "start",
           drv \in Quiet /\ enabled' => enabled \/ Head(todo).do = "irq"
    PROVE  LifecycleInv'
<1> DEFINE r == Code[drv].remove
<1>1. /\ todo \in Seq(Steps) /\ todo # <<>> /\ ProbeList(todo, held, r, drv)
      /\ ~data /\ ~isr
      /\ handler => ~CanFail(todo)
      /\ engine => drv \in {"virtio", "nvme"} \/ ~CanFail(todo)
      /\ drv \in Quiet /\ enabled => ~CanFail(todo)
      /\ Releases(r, "buffers") => Occurs(todo, "fill") \/ filled = Buffers
      /\ filled # 0 => Releases(r, "buffers") /\ (CanFail(todo) => Head(todo).do = "fill")
      /\ engine => drv = "virtio" \/ Occurs(r, "stop")
  BY DEF LifecycleInv, LifecycleTypes, Probing, Switched
<1>2. todo' = Tail(todo) /\ phase' = "probe"
  BY DEF GoOn
<1>3. Tail(todo) \in Seq(Steps) /\ Head(todo) = todo[1] /\ 1 \in DOMAIN todo
      /\ \A i \in DOMAIN Tail(todo) : i \in Nat \ {0} /\ i + 1 \in DOMAIN todo
                                      /\ Tail(todo)[i] = todo[i + 1]
  BY <1>1, StepsTail
<1>4. /\ \A do : Occurs(todo, do) <=> Head(todo).do = do \/ Occurs(Tail(todo), do)
      /\ CanFail(Tail(todo)) => CanFail(todo)
  BY <1>1, TailOccurs
<1> HIDE DEF r
<1>5. ProbeList(Tail(todo), held', r, drv) /\ Tail(todo) # <<>>
  BY <1>1, ProbeListTail
<1>6. /\ Head(todo).do = "irq" => ~CanFail(Tail(todo))
      /\ Head(todo).do = "start" /\ drv # "nvme" => ~CanFail(Tail(todo))
      /\ Head(todo).do = "fill" => ~CanFail(Tail(todo))
  <2> SUFFICES ASSUME CanFail(Tail(todo))
               PROVE  /\ Head(todo).do # "irq"
                      /\ ~(Head(todo).do = "start" /\ drv # "nvme")
                      /\ Head(todo).do # "fill"
    OBVIOUS
  <2>1. PICK j \in DOMAIN Tail(todo) : Tail(todo)[j].do \in Failing
    BY DEF CanFail
  <2>2. j + 1 \in DOMAIN todo /\ todo[j + 1].do \in Failing /\ ~(j + 1 <= 1) /\ ~(j + 1 < 1)
    BY <1>3, <2>1
  <2>. QED
    BY <1>1, <1>3, <2>2 DEF ProbeList, SwitchesLast
<1>7. Head(todo).do = "start" => drv = "virtio" \/ Occurs(r, "stop")
  BY <1>1, <1>4 DEF ProbeList, SwitchesLast
<1>8. Probing'
  BY <1>1, <1>2, <1>4, <1>5, <1>6 DEF Probing, r
<1>9. LifecycleTypes' /\ Switched'
  BY <1>1, <1>2, <1>3, <1>7 DEF LifecycleTypes, Switched, r
<1>. QED
  BY <1>2, <1>8, <1>9 DEF LifecycleInv, Unbound, Undoing, Serving, Removing

\* A step of a probe that fails: its error path frees what is held then.
LEMMA ProbeFails ==
    ASSUME LifecycleInv, phase = "probe", Head(todo).do \in Failing, phase' = "undo",
           drv' = drv, data' = data, isr' = isr, handler' = handler, engine' = engine,
           enabled' = enabled, line' = line,
           filled' = filled \/ filled' = 0, Head(todo).do = "fill" => filled' = 0,
           \/ held' = held /\ todo' = Frees(Head(todo).undo)
           \/ \E x \in Adds(Head(todo)) :
                 held' = held \cup {x} /\ todo' = Frees(<<x>> \o Head(todo).undo)
    PROVE  LifecycleInv'
<1> DEFINE undo == Head(todo).undo
           r == Code[drv].remove
<1>1. /\ todo \in Seq(Steps) /\ todo # <<>> /\ ProbeList(todo, held, r, drv)
      /\ ~data /\ ~isr
      /\ handler => ~CanFail(todo)
      /\ engine => drv \in {"virtio", "nvme"} \/ ~CanFail(todo)
      /\ drv \in Quiet /\ enabled => ~CanFail(todo)
      /\ filled # 0 => (CanFail(todo) => Head(todo).do = "fill")
      /\ engine => drv = "virtio" \/ Occurs(r, "stop")
  BY DEF LifecycleInv, LifecycleTypes, Probing, Switched
<1>2. Head(todo) = todo[1] /\ 1 \in DOMAIN todo /\ todo[1] \in Steps
  BY <1>1, StepsTail
<1>3. CanFail(todo)
  BY <1>2 DEF CanFail
<1>4. undo \in Seq(Things) /\ FailsClean(todo, held, 1)
  BY <1>1, <1>2 DEF ProbeList, Steps
<1>5. /\ Once(undo)
      /\ \A x \in Lasting : Named(undo, x) <=> x \in held
      /\ \A x \in Adds(Head(todo)) : x \in Lasting /\ ~Named(undo, x)
      /\ "firmware" \in held => Named(undo, "firmware")
  BY <1>1, <1>2, <1>4, NothingBefore DEF FailsClean
<1>6. PICK names \in Seq(Things) :
          /\ todo' = Frees(names) /\ Once(names)
          /\ \A x \in Lasting : Named(names, x) <=> x \in held'
          /\ "firmware" \in held' => Named(names, "firmware")
          /\ held' \subseteq held \cup Lasting
  <2>1. CASE held' = held /\ todo' = Frees(undo)
    BY <1>4, <1>5, <2>1
  <2>2. ASSUME NEW x \in Adds(Head(todo)), held' = held \cup {x},
               todo' = Frees(<<x>> \o undo)
        PROVE  \E names \in Seq(Things) :
                  /\ todo' = Frees(names) /\ Once(names)
                  /\ \A y \in Lasting : Named(names, y) <=> y \in held'
                  /\ "firmware" \in held' => Named(names, "firmware")
                  /\ held' \subseteq held \cup Lasting
    <3> DEFINE names == <<x>> \o undo
    <3>1. x \in Lasting /\ x \in Things /\ ~Named(undo, x)
      BY <1>5 DEF Lasting
    <3>2. /\ names \in Seq(Things)
          /\ 1 \in DOMAIN names /\ names[1] = x
          /\ \A i \in DOMAIN undo : i \in Nat \ {0} /\ i + 1 \in DOMAIN names
                                   /\ names[i + 1] = undo[i]
          /\ \A i \in DOMAIN names : i = 1 \/ (i - 1 \in DOMAIN undo /\ names[i] = undo[i - 1])
          /\ DOMAIN names \subseteq Nat
      BY <1>4, <3>1
    <3> HIDE DEF names
    <3>3. \A y : Named(names, y) <=> y = x \/ Named(undo, y)
      BY <3>2 DEF Named
    <3>4. Once(names)
      <4>1. ASSUME NEW j \in DOMAIN names, NEW k \in DOMAIN names, names[j] = names[k]
            PROVE  j = k
        <5>1. CASE j = 1 \/ k = 1
          BY <3>1, <3>2, <4>1, <5>1 DEF Named
        <5>2. CASE j # 1 /\ k # 1
          <6>1. j - 1 = k - 1
            BY <1>5, <3>2, <4>1, <5>2 DEF Once
          <6>. QED
            BY <3>2, <6>1
        <5>. QED
          BY <5>1, <5>2
      <4>. QED
        BY <4>1 DEF Once
    <3>5. /\ \A y \in Lasting : Named(names, y) <=> y \in held'
          /\ "firmware" \in held' => Named(names, "firmware")
          /\ held' \subseteq held \cup Lasting
      BY <1>5, <2>2, <3>1, <3>3 DEF Lasting
    <3>. QED
      BY <2>2, <3>2, <3>4, <3>5 DEF names
  <2>. QED
    BY <2>1, <2>2
<1>7. /\ Frees(names) \in Seq(Steps) /\ DOMAIN Frees(names) = DOMAIN names
      /\ \A i \in DOMAIN names :
            Frees(names)[i].do = "free" /\ Frees(names)[i].what = names[i]
      /\ \A x : Releases(Frees(names), x) <=> Named(names, x)
  BY FreesIs
<1>8. filled' = 0
  BY <1>1, <1>3
<1>9. Undoing'
  <2>1. \A i \in DOMAIN todo' : todo'[i].do = "free" /\ todo'[i].what \in Things
    BY <1>6, <1>7
  <2>2. \A i, j \in DOMAIN todo' : todo'[i].what = todo'[j].what => i = j
    BY <1>6, <1>7 DEF Once
  <2>3. /\ \A x \in Lasting : x \in held' <=> Releases(todo', x)
        /\ "firmware" \in held' => Releases(todo', "firmware")
    BY <1>6, <1>7
  <2>4. ~handler' /\ ~data' /\ ~isr' /\ (engine' => drv' \in {"virtio", "nvme"})
        /\ (drv' \in Quiet => ~enabled')
    BY <1>1, <1>3
  <2>. QED
    BY <1>8, <2>1, <2>2, <2>3, <2>4 DEF Undoing
<1>10. LifecycleTypes'
  <2>1. /\ drv' \in Drivers /\ held' \subseteq DmaMemory \cup {"priv", "firmware", "cmd_queue"}
        /\ filled' \in 0 .. Buffers
    BY <1>6, <1>8, BufferAssumption
    DEF LifecycleInv, LifecycleTypes, LifecycleTypeOK, Lasting, Things
  <2>2. {engine', handler', enabled', data', line', isr'} \subseteq BOOLEAN
    BY DEF LifecycleInv, LifecycleTypes, LifecycleTypeOK
  <2>. QED
    BY <1>6, <1>7, <2>1, <2>2 DEF LifecycleTypes, LifecycleTypeOK
<1>11. Switched'
  BY <1>1 DEF Switched
<1>. QED
  BY <1>9, <1>10, <1>11 DEF LifecycleInv, Unbound, Probing, Serving, Removing

\* A step of a remove: what it takes away is not there any more.
LEMMA RemoveGoesOn ==
    ASSUME LifecycleInv, phase = "remove", todo # <<>>, GoOn, Head(todo).do # "unpublish",
           drv' = drv, data' = data, isr' = isr, LifecycleTypeOK',
           \A x \in Things :
              x \in held' <=> x \in held /\ ~(Head(todo).do = "free" /\ Head(todo).what = x),
           filled' = IF Head(todo).do = "free" /\ Head(todo).what = "buffers"
                     THEN 0 ELSE filled,
           handler' => handler /\ Head(todo).do # "irqfree",
           isr => handler',
           engine' => engine /\ Head(todo).do # "stop",
           drv \in Quiet /\ enabled' => enabled /\ Head(todo).do # "mask"
    PROVE  LifecycleInv'
<1>1. /\ todo \in Seq(Steps) /\ RemoveList(todo, drv) /\ data
      /\ \A x \in Lasting : x \in held <=> Releases(todo, x)
      /\ "firmware" \in held => Releases(todo, "firmware")
      /\ filled # 0 => Releases(todo, "buffers")
      /\ Occurs(todo, "irqfree") \/ Occurs(todo, "stop") => Whole
      /\ handler => Occurs(todo, "irqfree")
      /\ engine => drv = "virtio" \/ Occurs(todo, "stop")
      /\ drv \in Quiet /\ enabled => Occurs(todo, "mask")
      /\ engine => drv = "virtio" \/ Occurs(Code[drv].remove, "stop")
      /\ isr => handler /\ data
  BY DEF LifecycleInv, LifecycleTypes, Removing, Switched
<1>2. todo' = Tail(todo) /\ phase' = "remove"
  BY DEF GoOn
<1>3. /\ Tail(todo) \in Seq(Steps) /\ Head(todo) = todo[1] /\ 1 \in DOMAIN todo
      /\ \A i \in DOMAIN todo : i # 1 => i - 1 \in DOMAIN Tail(todo)
      /\ \A i \in DOMAIN Tail(todo) : i \in Nat \ {0} /\ i + 1 \in DOMAIN todo
                                      /\ Tail(todo)[i] = todo[i + 1]
  BY <1>1, StepsTail
<1>4. /\ \A do : Occurs(todo, do) <=> Head(todo).do = do \/ Occurs(Tail(todo), do)
      /\ \A x : Releases(todo, x) <=> (Head(todo).do = "free" /\ Head(todo).what = x)
                                      \/ Releases(Tail(todo), x)
  BY <1>1, TailOccurs
<1>5. RemoveList(Tail(todo), drv)
  BY <1>1, RemoveListTail
<1>6. ASSUME Head(todo).do = "free"
      PROVE  /\ ~Releases(Tail(todo), Head(todo).what)
             /\ ~Occurs(Tail(todo), "irqfree") /\ ~Occurs(Tail(todo), "stop")
  <2>1. ASSUME NEW i \in DOMAIN Tail(todo)
        PROVE  /\ ~(Tail(todo)[i].do = "free" /\ Tail(todo)[i].what = Head(todo).what)
               /\ Tail(todo)[i].do \notin {"irqfree", "stop"}
    <3>1. i + 1 \in DOMAIN todo /\ Tail(todo)[i] = todo[i + 1] /\ i + 1 # 1 /\ ~(i + 1 < 1)
      BY <1>3
    <3>. QED
      BY <1>1, <1>3, <1>6, <3>1 DEF RemoveList
  <2>. QED
    BY <2>1 DEF Releases, Occurs
<1>7. /\ \A x \in Lasting : x \in held' <=> Releases(Tail(todo), x)
      /\ "firmware" \in held' => Releases(Tail(todo), "firmware")
      /\ filled' # 0 => Releases(Tail(todo), "buffers")
  BY <1>1, <1>4, <1>6 DEF Lasting, Things
<1>8. Occurs(Tail(todo), "irqfree") \/ Occurs(Tail(todo), "stop") => Whole'
  <2> SUFFICES ASSUME Occurs(Tail(todo), "irqfree") \/ Occurs(Tail(todo), "stop")
               PROVE  Whole'
    OBVIOUS
  <2>1. Head(todo).do # "free"
    BY <1>6
  <2>2. Whole /\ filled' = filled /\ \A x \in Things : x \in held' <=> x \in held
    BY <1>1, <1>4, <2>1
  <2>. QED
    BY <2>2 DEF Whole, Lasting, Things
<1>9. Removing'
  BY <1>1, <1>2, <1>4, <1>5, <1>7, <1>8 DEF Removing
<1>10. LifecycleTypes' /\ Switched'
  BY <1>1, <1>2, <1>3 DEF LifecycleTypes, Switched
<1>. QED
  BY <1>2, <1>9, <1>10 DEF LifecycleInv, Unbound, Undoing, Serving, Probing

\* What the first step of a probe adds lasts until remove.
LEMMA AddsLasting ==
    ASSUME LifecycleInv, phase = "probe", todo # <<>>, Head(todo).do \in Failing
    PROVE  \A x \in Adds(Head(todo)) : x \in Lasting /\ x \in Things
<1>1. todo \in Seq(Steps) /\ ProbeList(todo, held, Code[drv].remove, drv)
  BY DEF LifecycleInv, LifecycleTypes, Probing
<1>2. FailsClean(todo, held, 1) /\ Head(todo) = todo[1]
  BY <1>1, StepsTail DEF ProbeList
<1>. QED
  BY <1>2 DEF FailsClean, Lasting

\* An allocation, the receive buffers, the pair of rings, the firmware.
LEMMA TakeStepInv ==
    ASSUME LifecycleInv, TakeStep
    PROVE  LifecycleInv'
<1>1. /\ todo # <<>> /\ Head(todo).do = "take"
      /\ drv' = drv /\ filled' = filled /\ engine' = engine /\ handler' = handler
      /\ enabled' = enabled /\ data' = data /\ line' = line /\ isr' = isr
  BY DEF TakeStep, At, switches
<1>2. phase = "probe" /\ LifecycleTypeOK
  BY <1>1, PhaseOfStep DEF RemoveKinds, LifecycleInv, LifecycleTypes
<1>3. Head(todo).do \in Failing /\ Adds(Head(todo)) = {Head(todo).what}
  BY <1>1 DEF Failing, Adds
<1>4. CASE held' = held \cup {Head(todo).what} /\ GoOn
  <2>1. Head(todo).what \in Lasting /\ Head(todo).what \in Things
    BY <1>1, <1>2, <1>3, AddsLasting
  <2>2. LifecycleTypeOK'
    BY <1>1, <1>2, <1>4, <2>1 DEF LifecycleTypeOK, GoOn, Things
  <2>. QED
    BY <1>1, <1>2, <1>3, <1>4, <2>1, <2>2, ProbeGoesOn DEF Lasting
<1>5. CASE held' = held /\ Fail
  BY <1>1, <1>2, <1>3, <1>5, ProbeFails DEF Fail
<1>. QED
  BY <1>4, <1>5 DEF TakeStep

LEMMA FillStepInv ==
    ASSUME LifecycleInv, FillStep
    PROVE  LifecycleInv'
<1>1. /\ todo # <<>> /\ Head(todo).do = "fill"
      /\ drv' = drv /\ held' = held /\ engine' = engine /\ handler' = handler
      /\ enabled' = enabled /\ data' = data /\ line' = line /\ isr' = isr
  BY DEF FillStep, At, switches
<1>2. phase = "probe" /\ LifecycleTypeOK /\ todo \in Seq(Steps)
  BY <1>1, PhaseOfStep DEF RemoveKinds, LifecycleInv, LifecycleTypes
<1>3. Head(todo).do \in Failing /\ Adds(Head(todo)) = {}
  BY <1>1 DEF Failing, Adds
<1>4. CASE filled < Buffers /\ filled' = filled + 1 /\ phase' = phase /\ todo' = todo
  <2>1. LifecycleTypeOK'
    <3>1. filled' \in 0 .. Buffers
      BY <1>2, <1>4, BufferAssumption DEF LifecycleTypeOK
    <3>. QED
      BY <1>1, <1>2, <1>4, <3>1 DEF LifecycleTypeOK
  <2>2. Occurs(todo, "fill") /\ Releases(Code[drv].remove, "buffers")
    <3>1. Occurs(todo, "fill")
      BY <1>1, <1>2, TailOccurs
    <3>. QED
      BY <1>2, <3>1 DEF LifecycleInv, Probing, ProbeList, EndsWhole
  <2>3. Probing'
    BY <1>1, <1>2, <1>4, <2>2 DEF LifecycleInv, Probing
  <2>4. Switched'
    BY <1>1 DEF LifecycleInv, Switched
  <2>. QED
    BY <1>2, <1>4, <2>1, <2>3, <2>4
    DEF LifecycleInv, LifecycleTypes, Unbound, Undoing, Serving, Removing
<1>5. CASE filled < Buffers /\ filled' = 0 /\ Fail
  BY <1>1, <1>2, <1>3, <1>5, ProbeFails DEF Fail
<1>6. CASE filled = Buffers /\ filled' = filled /\ GoOn
  <2>1. LifecycleTypeOK'
    BY <1>1, <1>2, <1>6 DEF LifecycleTypeOK, GoOn
  <2>. QED
    BY <1>1, <1>2, <1>3, <1>6, <2>1, ProbeGoesOn
<1>. QED
  BY <1>4, <1>5, <1>6 DEF FillStep

LEMMA PairStepInv ==
    ASSUME LifecycleInv, PairStep
    PROVE  LifecycleInv'
<1>1. /\ todo # <<>> /\ Head(todo).do = "pair"
      /\ drv' = drv /\ filled' = filled /\ engine' = engine /\ handler' = handler
      /\ enabled' = enabled /\ data' = data /\ line' = line /\ isr' = isr
  BY DEF PairStep, At, switches
<1>2. phase = "probe" /\ LifecycleTypeOK
  BY <1>1, PhaseOfStep DEF RemoveKinds, LifecycleInv, LifecycleTypes
<1>3. Head(todo).do \in Failing /\ Adds(Head(todo)) = {"rx_ring", "tx_ring"}
  BY <1>1 DEF Failing, Adds
<1>4. CASE held' = held \cup {"rx_ring", "tx_ring"} /\ GoOn
  <2>1. LifecycleTypeOK'
    BY <1>1, <1>2, <1>4 DEF LifecycleTypeOK, GoOn, DmaMemory
  <2>. QED
    BY <1>1, <1>2, <1>3, <1>4, <2>1, ProbeGoesOn
<1>5. CASE held' = held /\ Fail
  BY <1>1, <1>2, <1>3, <1>5, ProbeFails DEF Fail
<1>6. CASE \E ring \in {"rx_ring", "tx_ring"} :
              /\ held' = held \cup {ring}
              /\ phase' = "undo"
              /\ todo' = Frees(<<ring>> \o Head(todo).undo)
  BY <1>1, <1>2, <1>3, <1>6, ProbeFails
<1>. QED
  BY <1>4, <1>5, <1>6 DEF PairStep

LEMMA FirmwareStepInv ==
    ASSUME LifecycleInv, FirmwareStep
    PROVE  LifecycleInv'
<1>1. /\ todo # <<>> /\ Head(todo).do = "firmware" /\ GoOn
      /\ drv' = drv /\ filled' = filled /\ engine' = engine /\ handler' = handler
      /\ enabled' = enabled /\ data' = data /\ line' = line /\ isr' = isr
      /\ held \subseteq held' /\ held' \subseteq held \cup {"firmware"}
  BY DEF FirmwareStep, At, switches
<1>2. phase = "probe" /\ LifecycleTypeOK
  BY <1>1, PhaseOfStep DEF RemoveKinds, LifecycleInv, LifecycleTypes
<1>3. LifecycleTypeOK'
  BY <1>1, <1>2 DEF LifecycleTypeOK, GoOn
<1>. QED
  BY <1>1, <1>2, <1>3, ProbeGoesOn DEF Adds, Lasting

\* Device tests, waits, and the switches of the device.
LEMMA CheckStepInv ==
    ASSUME LifecycleInv, CheckStep
    PROVE  LifecycleInv'
<1>1. /\ todo # <<>> /\ Head(todo).do \in {"check", "await"}
      /\ drv' = drv /\ filled' = filled /\ engine' = engine /\ handler' = handler
      /\ enabled' = enabled /\ data' = data /\ line' = line /\ isr' = isr /\ held' = held
  BY DEF CheckStep, At, switches, resources
<1>2. phase = "probe" /\ LifecycleTypeOK
  BY <1>1, PhaseOfStep DEF RemoveKinds, LifecycleInv, LifecycleTypes
<1>3. Head(todo).do \in Failing /\ Adds(Head(todo)) = {}
  BY <1>1 DEF Failing, Adds
<1>4. CASE GoOn
  <2>1. LifecycleTypeOK'
    BY <1>1, <1>2, <1>4 DEF LifecycleTypeOK, GoOn
  <2>. QED
    BY <1>1, <1>2, <1>3, <1>4, <2>1, ProbeGoesOn
<1>5. CASE Fail
  BY <1>1, <1>2, <1>3, <1>5, ProbeFails DEF Fail
<1>. QED
  BY <1>4, <1>5 DEF CheckStep

LEMMA ResetStepInv ==
    ASSUME LifecycleInv, ResetStep
    PROVE  LifecycleInv'
<1>1. /\ todo # <<>> /\ Head(todo).do = "reset" /\ GoOn
      /\ drv' = drv /\ filled' = filled /\ held' = held /\ handler' = handler
      /\ data' = data /\ isr' = isr
      /\ engine' = FALSE /\ enabled' = (drv = "virtio") /\ line' = FALSE
  BY DEF ResetStep, At, resources
<1>2. phase = "probe" /\ LifecycleTypeOK
  BY <1>1, PhaseOfStep DEF RemoveKinds, LifecycleInv, LifecycleTypes
<1>3. LifecycleTypeOK'
  BY <1>1, <1>2 DEF LifecycleTypeOK, GoOn
<1>4. drv \in Quiet => ~enabled'
  BY <1>1 DEF Quiet
<1>. QED
  BY <1>1, <1>2, <1>3, <1>4, ProbeGoesOn DEF Adds

LEMMA EngineStepInv ==
    ASSUME LifecycleInv, EngineStep
    PROVE  LifecycleInv'
<1>1. /\ todo # <<>> /\ Head(todo).do \in {"start", "stop"} /\ GoOn
      /\ drv' = drv /\ filled' = filled /\ held' = held /\ handler' = handler
      /\ enabled' = enabled /\ data' = data /\ line' = line /\ isr' = isr
      /\ engine' = (Head(todo).do = "start")
  BY DEF EngineStep, At, resources
<1>2. /\ phase \in {"probe", "remove"} /\ LifecycleTypeOK
      /\ phase = "remove" => Head(todo).do = "stop"
  BY <1>1, PhaseOfStep DEF RemoveKinds, LifecycleInv, LifecycleTypes
<1>3. LifecycleTypeOK'
  BY <1>1, <1>2 DEF LifecycleTypeOK, GoOn
<1>4. CASE phase = "probe"
  BY <1>1, <1>3, <1>4, ProbeGoesOn DEF Adds
<1>5. CASE phase = "remove"
  <2>1. isr => handler
    BY DEF LifecycleInv, Switched
  <2>. QED
    BY <1>1, <1>2, <1>3, <1>5, <2>1, RemoveGoesOn
<1>. QED
  BY <1>2, <1>4, <1>5

\* irq_request in a probe, irq_free and the mask.
LEMMA IrqStepInv ==
    ASSUME LifecycleInv, IrqStep
    PROVE  LifecycleInv'
<1>1. /\ todo # <<>> /\ Head(todo).do = "irq" /\ GoOn
      /\ drv' = drv /\ filled' = filled /\ held' = held /\ engine' = engine
      /\ data' = data /\ line' = line /\ isr' = isr
      /\ handler' \in BOOLEAN /\ enabled' \in BOOLEAN
  BY DEF IrqStep, At, resources
<1>2. phase = "probe" /\ LifecycleTypeOK
  BY <1>1, PhaseOfStep DEF RemoveKinds, LifecycleInv, LifecycleTypes
<1>3. LifecycleTypeOK'
  BY <1>1, <1>2 DEF LifecycleTypeOK, GoOn
<1>. QED
  BY <1>1, <1>2, <1>3, ProbeGoesOn DEF Adds

LEMMA IrqFreeStepInv ==
    ASSUME LifecycleInv, IrqFreeStep
    PROVE  LifecycleInv'
<1>1. /\ todo # <<>> /\ Head(todo).do = "irqfree" /\ GoOn /\ ~isr /\ handler' = FALSE
      /\ drv' = drv /\ filled' = filled /\ held' = held /\ engine' = engine
      /\ enabled' = enabled /\ data' = data /\ line' = line /\ isr' = isr
  BY DEF IrqFreeStep, At, resources
<1>2. phase = "remove" /\ LifecycleTypeOK
  BY <1>1, PhaseOfStep DEF ProbeKinds, LifecycleInv, LifecycleTypes
<1>3. LifecycleTypeOK'
  BY <1>1, <1>2 DEF LifecycleTypeOK, GoOn
<1>. QED
  BY <1>1, <1>2, <1>3, RemoveGoesOn

LEMMA MaskStepInv ==
    ASSUME LifecycleInv, MaskStep
    PROVE  LifecycleInv'
<1>1. /\ todo # <<>> /\ Head(todo).do = "mask" /\ GoOn
      /\ drv' = drv /\ filled' = filled /\ held' = held /\ engine' = engine
      /\ handler' = handler /\ data' = data /\ line' = line /\ isr' = isr
      /\ enabled' = (Head(todo).what = "ones")
  BY DEF MaskStep, At, resources
<1>2. phase \in {"probe", "remove"} /\ LifecycleTypeOK /\ todo \in Seq(Steps)
  BY <1>1, PhaseOfStep DEF LifecycleInv, LifecycleTypes
<1>3. LifecycleTypeOK'
  BY <1>1, <1>2 DEF LifecycleTypeOK, GoOn
<1>4. Head(todo) = todo[1] /\ 1 \in DOMAIN todo
  BY <1>1, <1>2, StepsTail
<1>5. CASE phase = "probe"
  <2>1. ~enabled'
    BY <1>1, <1>4, <1>5 DEF LifecycleInv, Probing, ProbeList, SwitchesLast
  <2>. QED
    BY <1>1, <1>3, <1>5, <2>1, ProbeGoesOn DEF Adds
<1>6. CASE phase = "remove"
  <2>1. drv \in Quiet => ~enabled'
    BY <1>1, <1>4, <1>6 DEF LifecycleInv, Removing, RemoveList
  <2>2. isr => handler
    BY DEF LifecycleInv, Switched
  <2>. QED
    BY <1>1, <1>3, <1>6, <2>1, <2>2, RemoveGoesOn
<1>. QED
  BY <1>2, <1>5, <1>6

\* A probe that comes to its end leaves all that remove will free.
LEMMA PublishStepInv ==
    ASSUME LifecycleInv, PublishStep
    PROVE  LifecycleInv'
<1> DEFINE r == Code[drv].remove
<1>1. /\ todo # <<>> /\ Head(todo).do = "publish" /\ data' = TRUE
      /\ phase' = "bound" /\ todo' = <<>>
      /\ drv' = drv /\ filled' = filled /\ held' = held /\ engine' = engine
      /\ handler' = handler /\ enabled' = enabled /\ line' = line /\ isr' = isr
  BY DEF PublishStep, At, resources
<1>2. phase = "probe" /\ LifecycleTypeOK /\ todo \in Seq(Steps)
  BY <1>1, PhaseOfStep DEF RemoveKinds, LifecycleInv, LifecycleTypes
<1>3. /\ Head(todo) = todo[1] /\ 1 \in DOMAIN todo
      /\ DOMAIN Tail(todo) = 1 .. Len(todo) - 1
  BY <1>1, <1>2, StepsTail
<1>4. /\ EndsWhole(todo, held, r)
      /\ Releases(r, "buffers") => Occurs(todo, "fill") \/ filled = Buffers
      /\ filled # 0 => Releases(r, "buffers")
      /\ ~isr
  BY <1>2 DEF LifecycleInv, Probing, ProbeList
<1>5. Len(todo) = 1
  BY <1>1, <1>3, <1>4 DEF EndsWhole
<1>6. ~Occurs(todo, "fill")
  <2>1. ~Occurs(Tail(todo), "fill")
    BY <1>3, <1>5 DEF Occurs
  <2>. QED
    BY <1>1, <1>2, <2>1, TailOccurs
<1>7. \A x \in Lasting : Releases(r, x) <=> x \in held
  BY <1>1, <1>2, <1>3, <1>4, NothingBefore DEF EndsWhole
<1>8. Whole'
  BY <1>1, <1>4, <1>6, <1>7 DEF Whole, EndsWhole
<1>9. LifecycleTypeOK'
  BY <1>1, <1>2 DEF LifecycleTypeOK
<1>10. Switched'
  BY <1>1, <1>4 DEF LifecycleInv, Switched
<1>. QED
  BY <1>1, <1>8, <1>9, <1>10
  DEF LifecycleInv, LifecycleTypes, Unbound, Undoing, Serving, Probing, Removing

\* Nothing is left when remove comes to its end.
LEMMA UnpublishStepInv ==
    ASSUME LifecycleInv, UnpublishStep
    PROVE  LifecycleInv'
<1>1. /\ todo # <<>> /\ Head(todo).do = "unpublish" /\ data' = FALSE
      /\ phase' = "none" /\ todo' = <<>>
      /\ drv' = drv /\ filled' = filled /\ held' = held /\ engine' = engine
      /\ handler' = handler /\ enabled' = enabled /\ line' = line /\ isr' = isr
  BY DEF UnpublishStep, At, resources
<1>2. phase = "remove" /\ LifecycleTypeOK /\ todo \in Seq(Steps)
  BY <1>1, PhaseOfStep DEF ProbeKinds, LifecycleInv, LifecycleTypes
<1>3. /\ Head(todo) = todo[1] /\ 1 \in DOMAIN todo
      /\ DOMAIN Tail(todo) = 1 .. Len(todo) - 1
  BY <1>1, <1>2, StepsTail
<1>4. Len(todo) = 1
  BY <1>1, <1>2, <1>3 DEF LifecycleInv, Removing, RemoveList
<1>5. /\ \A x : ~Releases(todo, x)
      /\ \A do : do # "unpublish" => ~Occurs(todo, do)
  <2>1. (\A x : ~Releases(Tail(todo), x)) /\ (\A do : ~Occurs(Tail(todo), do))
    BY <1>3, <1>4 DEF Occurs, Releases
  <2>. QED
    BY <1>1, <1>2, <2>1, TailOccurs
<1>6. /\ held = {} /\ filled = 0 /\ ~handler /\ ~isr
      /\ engine => drv = "virtio"
      /\ drv \in Quiet => ~enabled
  <2>1. /\ \A x \in Lasting : x \notin held
        /\ "firmware" \notin held /\ filled = 0 /\ ~handler
        /\ engine => drv = "virtio"
        /\ drv \in Quiet => ~enabled
    BY <1>2, <1>5 DEF LifecycleInv, Removing
  <2>2. held = {}
    BY <1>2, <2>1 DEF LifecycleTypeOK, Lasting, Things
  <2>. QED
    BY <2>1, <2>2 DEF LifecycleInv, Switched
<1>7. LifecycleTypeOK'
  BY <1>1, <1>2 DEF LifecycleTypeOK
<1>8. Unbound' /\ Switched'
  BY <1>1, <1>6 DEF Unbound, Switched
<1>. QED
  BY <1>1, <1>7, <1>8
  DEF LifecycleInv, LifecycleTypes, Undoing, Serving, Probing, Removing

\* A free in a remove or on an error path.
LEMMA FreeStepInv ==
    ASSUME LifecycleInv, FreeStep
    PROVE  LifecycleInv'
<1>1. /\ todo # <<>> /\ Head(todo).do = "free" /\ GoOn
      /\ drv' = drv /\ engine' = engine /\ handler' = handler /\ enabled' = enabled
      /\ data' = data /\ line' = line /\ isr' = isr
      /\ filled' = IF Head(todo).what = "buffers" THEN 0 ELSE filled
      /\ held' = IF Head(todo).what = "buffers" THEN held ELSE held \ {Head(todo).what}
  BY DEF FreeStep, At, switches
<1>2. phase \in {"undo", "remove"} /\ LifecycleTypeOK /\ todo \in Seq(Steps)
  BY <1>1, PhaseOfStep DEF ProbeKinds, LifecycleInv, LifecycleTypes
<1>3. LifecycleTypeOK'
  <2>1. filled' \in 0 .. Buffers /\ held' \subseteq held
    BY <1>1, <1>2, BufferAssumption DEF LifecycleTypeOK
  <2>2. phase' = phase
    BY <1>1 DEF GoOn
  <2>. QED
    BY <1>1, <1>2, <2>1, <2>2 DEF LifecycleTypeOK
<1>4. "buffers" \notin Things
  BY DEF Things, DmaMemory
<1>5. CASE phase = "remove"
  <2>1. isr => handler
    BY DEF LifecycleInv, Switched
  <2>2. \A x \in Things : x \in held' <=>
            x \in held /\ ~(Head(todo).do = "free" /\ Head(todo).what = x)
    BY <1>1, <1>4
  <2>. QED
    BY <1>1, <1>3, <1>5, <2>1, <2>2, RemoveGoesOn
<1>6. CASE phase = "undo"
  <2>1. /\ Tail(todo) \in Seq(Steps) /\ Head(todo) = todo[1] /\ 1 \in DOMAIN todo
        /\ \A i \in DOMAIN Tail(todo) : i \in Nat \ {0} /\ i + 1 \in DOMAIN todo
                                        /\ Tail(todo)[i] = todo[i + 1]
    BY <1>1, <1>2, StepsTail
  <2>2. \A x : Releases(todo, x) <=> Head(todo).what = x \/ Releases(Tail(todo), x)
    BY <1>1, <1>2, TailOccurs
  <2>3. todo' = Tail(todo) /\ phase' = "undo"
    BY <1>1, <1>6 DEF GoOn
  <2>4. /\ ~handler /\ ~data /\ ~isr /\ filled = 0
        /\ \A i \in DOMAIN todo : todo[i].do = "free" /\ todo[i].what \in Things
        /\ \A i, j \in DOMAIN todo : todo[i].what = todo[j].what => i = j
        /\ \A x \in Lasting : x \in held <=> Releases(todo, x)
        /\ "firmware" \in held => Releases(todo, "firmware")
        /\ engine => drv \in {"virtio", "nvme"}
        /\ drv \in Quiet => ~enabled
    BY <1>6 DEF LifecycleInv, Undoing
  <2>5. held' = held \ {Head(todo).what} /\ filled' = 0
    BY <1>1, <1>4, <2>1, <2>4
  <2>6. ~Releases(Tail(todo), Head(todo).what)
    <3>1. ASSUME NEW i \in DOMAIN Tail(todo) PROVE Tail(todo)[i].what # Head(todo).what
      <4>1. i + 1 \in DOMAIN todo /\ Tail(todo)[i] = todo[i + 1] /\ i + 1 # 1
        BY <2>1
      <4>. QED
        BY <2>1, <2>4, <4>1
    <3>. QED
      BY <3>1 DEF Releases
  <2>7. /\ \A x \in Lasting : x \in held' <=> Releases(Tail(todo), x)
        /\ "firmware" \in held' => Releases(Tail(todo), "firmware")
    BY <2>2, <2>4, <2>5, <2>6
  <2>8. \A i \in DOMAIN Tail(todo) :
            Tail(todo)[i].do = "free" /\ Tail(todo)[i].what \in Things
    BY <2>1, <2>4
  <2>9. \A i, j \in DOMAIN Tail(todo) : Tail(todo)[i].what = Tail(todo)[j].what => i = j
    <3> TAKE i, j \in DOMAIN Tail(todo)
    <3> HAVE Tail(todo)[i].what = Tail(todo)[j].what
    <3>1. i + 1 = j + 1
      BY <2>1, <2>4
    <3>. QED
      BY <2>1, <3>1
  <2>10. Undoing'
    BY <1>1, <2>3, <2>4, <2>5, <2>7, <2>8, <2>9 DEF Undoing
  <2>11. Switched'
    BY <1>1 DEF LifecycleInv, Switched
  <2>. QED
    BY <1>3, <2>1, <2>3, <2>10, <2>11
    DEF LifecycleInv, LifecycleTypes, Unbound, Serving, Probing, Removing
<1>. QED
  BY <1>2, <1>5, <1>6

\* An error path that is through has freed everything.
LEMMA UndoEndInv ==
    ASSUME LifecycleInv, UndoEnd
    PROVE  LifecycleInv'
<1>1. /\ phase = "undo" /\ todo = <<>> /\ phase' = "none" /\ todo' = todo
      /\ drv' = drv /\ filled' = filled /\ held' = held /\ engine' = engine
      /\ handler' = handler /\ enabled' = enabled /\ data' = data /\ line' = line
      /\ isr' = isr
  BY DEF UndoEnd, resources, switches
<1>2. /\ ~handler /\ ~data /\ ~isr /\ filled = 0
      /\ \A x \in Lasting : x \notin held
      /\ "firmware" \notin held
      /\ engine => drv \in {"virtio", "nvme"}
      /\ drv \in Quiet => ~enabled
  BY <1>1 DEF LifecycleInv, Undoing, Releases
<1>3. held = {}
  BY <1>2 DEF LifecycleInv, LifecycleTypes, LifecycleTypeOK, Lasting, Things
<1>4. LifecycleTypes'
  BY <1>1 DEF LifecycleInv, LifecycleTypes, LifecycleTypeOK
<1>5. Unbound' /\ Switched'
  BY <1>1, <1>2, <1>3 DEF LifecycleInv, Unbound, Switched
<1>. QED
  BY <1>1, <1>4, <1>5 DEF LifecycleInv, Undoing, Serving, Probing, Removing

\* Interrupts change line and isr alone; a handler runs only for a driver
\* that is bound or being removed.
LEMMA InterruptInv ==
    ASSUME LifecycleInv, Raise \/ Handler
    PROVE  LifecycleInv'
<1>1. /\ drv' = drv /\ phase' = phase /\ todo' = todo /\ held' = held /\ filled' = filled
      /\ engine' = engine /\ handler' = handler /\ enabled' = enabled /\ data' = data
  BY DEF Raise, Handler, HandlerEnter, HandlerLeave, resources, switches
<1>2. line' \in BOOLEAN /\ isr' \in BOOLEAN /\ (isr' => isr \/ (handler /\ data))
  <2>1. {engine, handler, enabled, data, line, isr} \subseteq BOOLEAN
    BY DEF LifecycleInv, LifecycleTypes, LifecycleTypeOK
  <2>2. CASE Raise
    BY <2>1, <2>2 DEF Raise
  <2>3. CASE HandlerEnter
    BY <2>1, <2>3 DEF HandlerEnter
  <2>4. CASE HandlerLeave
    BY <2>1, <2>4 DEF HandlerLeave
  <2>. QED
    BY <2>2, <2>3, <2>4 DEF Handler
<1>3. LifecycleTypes'
  BY <1>1, <1>2 DEF LifecycleInv, LifecycleTypes, LifecycleTypeOK
<1>4. Switched'
  BY <1>1, <1>2 DEF LifecycleInv, Switched
<1>5. /\ Unbound' /\ Probing' /\ Undoing'
  BY <1>1, <1>2 DEF LifecycleInv, Unbound, Probing, Undoing
<1>6. Serving' /\ Removing'
  BY <1>1 DEF LifecycleInv, Serving, Removing, Whole
<1>. QED
  BY <1>3, <1>4, <1>5, <1>6 DEF LifecycleInv

LEMMA LifecycleStutterInv ==
    ASSUME LifecycleInv, UNCHANGED lifecycleVars
    PROVE  LifecycleInv'
  BY DEF lifecycleVars, LifecycleInv, LifecycleTypes, LifecycleTypeOK, Unbound, Probing,
         Undoing, Serving, Removing, Whole, Switched

\* LifecycleInv holds throughout.
LEMMA LifecycleInvariance == LifecycleSpec => []LifecycleInv
<1>1. LifecycleInit => LifecycleInv
  BY InitLifecycle
<1>2. LifecycleInv /\ [LifecycleNext]_lifecycleVars => LifecycleInv'
  BY ProbeDeviceInv, RemoveDeviceInv, TakeStepInv, FillStepInv, PairStepInv,
     FirmwareStepInv, CheckStepInv, ResetStepInv, EngineStepInv, IrqStepInv,
     IrqFreeStepInv, MaskStepInv, PublishStepInv, UnpublishStepInv, FreeStepInv,
     UndoEndInv, InterruptInv, LifecycleStutterInv
  DEF LifecycleNext, Run
<1>. QED
  BY <1>1, <1>2, PTL DEF LifecycleSpec

\* Every variable of the lifecycle has its type, for every number of buffers
\* and every set of the eleven drivers.
THEOREM LifecycleTypeCorrect == LifecycleSpec => []LifecycleTypeOK
<1>1. LifecycleInv => LifecycleTypeOK
  BY DEF LifecycleInv, LifecycleTypes
<1>. QED
  BY <1>1, LifecycleInvariance, PTL

\* Whichever step of a probe fails, and at remove, each thing held is freed
\* once and nothing is freed that is not held; nothing stays held.
THEOREM LifecycleFreedExactlyOnce == LifecycleSpec => []FreedExactlyOnce
<1>1. LifecycleInv => FreedExactlyOnce
  <2> SUFFICES ASSUME LifecycleInv PROVE FreedExactlyOnce
    OBVIOUS
  <2>1. phase = "none" => held = {} /\ filled = 0 /\ ~handler /\ ~data
    BY DEF LifecycleInv, Unbound
  <2>2. ASSUME phase = "undo", NEW i \in DOMAIN todo
        PROVE  /\ todo[i].what \in held \cup {"firmware", "buffers"}
               /\ \A j \in DOMAIN todo : todo[i].what = todo[j].what => i = j
    BY <2>2 DEF LifecycleInv, Undoing, Releases, Lasting
  <2>3. ASSUME phase = "remove", NEW i \in DOMAIN todo, todo[i].do = "free"
        PROVE  /\ todo[i].what \in held \cup {"firmware", "buffers"}
               /\ \A j \in DOMAIN todo :
                     todo[j].do = "free" /\ todo[i].what = todo[j].what => i = j
    BY <2>3 DEF LifecycleInv, Removing, RemoveList, Releases, Lasting
  <2>. QED
    BY <2>1, <2>2, <2>3 DEF FreedExactlyOnce
<1>. QED
  BY <1>1, LifecycleInvariance, PTL

\* A device that may use the driver's memory finds all of it, in every probe
\* and remove but for the two paths LeftRunning names.
THEOREM LifecycleEngineHasMemory == LifecycleSpec => []EngineHasMemory
<1>1. LifecycleInv => EngineHasMemory
  <2> SUFFICES ASSUME LifecycleInv, engine, ~LeftRunning
               PROVE  /\ \A i \in DOMAIN Code[drv].probe :
                            Code[drv].probe[i].do = "take"
                            /\ Code[drv].probe[i].what \in DmaMemory =>
                               Code[drv].probe[i].what \in held
                      /\ (\E i \in DOMAIN Code[drv].probe :
                             Code[drv].probe[i].do = "fill") => filled = Buffers
    BY DEF EngineHasMemory
  <2> DEFINE p == Code[drv].probe
             r == Code[drv].remove
  <2>1. /\ p \in Seq(Steps) /\ p # <<>> /\ ProbeList(p, {}, r, drv)
    BY CodeOfDriver DEF Paired
  <2>2. /\ \A x \in Lasting : Releases(r, x) => x \in held
        /\ Releases(r, "buffers") => filled = Buffers
    <3>1. phase # "undo" /\ phase # "none"
      BY DEF LifecycleInv, Undoing, Unbound, LeftRunning
    <3>2. CASE phase = "probe"
      <4>1. ~CanFail(todo) /\ todo \in Seq(Steps) /\ todo # <<>>
            /\ EndsWhole(todo, held, r)
            /\ (Releases(r, "buffers") => Occurs(todo, "fill") \/ filled = Buffers)
        BY <3>2 DEF LifecycleInv, LifecycleTypes, Probing, ProbeList, LeftRunning
      <4>2. ~Occurs(todo, "fill")
        BY <4>1 DEF Occurs, CanFail, Failing
      <4>3. \A i, x : ~AddedBefore(todo, i, x)
        BY <4>1 DEF AddedBefore, Adds, CanFail, Failing
      <4>4. Len(todo) \in DOMAIN todo
        BY <4>1, StepsTail
      <4>. QED
        BY <4>1, <4>2, <4>3, <4>4 DEF EndsWhole
    <3>3. CASE phase = "bound"
      BY <3>3 DEF LifecycleInv, Serving, Whole
    <3>4. CASE phase = "remove"
      BY <3>4 DEF LifecycleInv, Removing, Whole, LeftRunning
    <3>. QED
      BY <3>1, <3>2, <3>3, <3>4 DEF LifecycleInv, LifecycleTypes, LifecycleTypeOK
  <2>3. ASSUME NEW i \in DOMAIN p, p[i].do = "take", p[i].what \in DmaMemory
        PROVE  p[i].what \in held
    <3>1. p[i].what \in Lasting /\ p[i].what \in Adds(p[i])
      BY <2>3 DEF Adds, Lasting, Things, DmaMemory
    <3>2. Len(p) \in DOMAIN p /\ p[Len(p)].do = "publish" /\ DOMAIN p = 1 .. Len(p)
          /\ Len(p) \in Nat
      BY <2>1, StepsTail DEF ProbeList, EndsWhole
    <3>3. i < Len(p)
      BY <2>3, <3>2
    <3>4. AddedBefore(p, Len(p), p[i].what)
      BY <3>1, <3>3 DEF AddedBefore
    <3>. QED
      BY <2>1, <2>2, <3>1, <3>2, <3>4 DEF ProbeList, EndsWhole
  <2>4. ASSUME NEW i \in DOMAIN p, p[i].do = "fill"
        PROVE  filled = Buffers
    BY <2>1, <2>2, <2>4 DEF ProbeList, EndsWhole, Occurs
  <2>. QED
    BY <2>3, <2>4
<1>. QED
  BY <1>1, LifecycleInvariance, PTL

\* The interrupt handler never runs on a priv that was freed or not published.
THEOREM LifecycleHandlerHasPriv == LifecycleSpec => []HandlerHasPriv
<1>1. LifecycleInv => HandlerHasPriv
  <2> SUFFICES ASSUME LifecycleInv, isr PROVE data /\ "priv" \in held
    BY DEF HandlerHasPriv
  <2>1. handler /\ data
    BY DEF LifecycleInv, Switched
  <2>2. Whole
    <3>1. phase \in {"bound", "remove"}
      BY DEF LifecycleInv, LifecycleTypes, LifecycleTypeOK, Unbound, Probing, Undoing
    <3>. QED
      BY <2>1, <3>1 DEF LifecycleInv, Serving, Removing
  <2>3. Releases(Code[drv].remove, "priv") /\ "priv" \in Lasting
    BY CodeOfDriver DEF Paired, Lasting, Things, DmaMemory
  <2>. QED
    BY <2>1, <2>2, <2>3 DEF Whole
<1>. QED
  BY <1>1, LifecycleInvariance, PTL

\* The drivers that switch interrupts off in remove leave a device behind that
\* cannot interrupt, also when a probe was given up.
THEOREM LifecycleSilentAfterRemove == LifecycleSpec => []SilentAfterRemove
<1>1. LifecycleInv => SilentAfterRemove
  BY DEF LifecycleInv, Unbound, Quiet, SilentAfterRemove
<1>. QED
  BY <1>1, LifecycleInvariance, PTL

-------------------------------------------------------------------------------
(* The WiFi queues *)

Stages == {"idle", "first", "rest", "tail", "sleep"}

\* Thread t is between the read of r's tail and its increment.
Fills(t, r) == call[t].ring = r /\ call[t].at \in {"first", "rest", "tail"}

\* The types, with the domains that the steps need.
WifiTypes ==
    /\ WifiTypeOK
    /\ entry = [r \in Rings |-> entry[r]]
    /\ call \in [Callers -> [at : Stages, ring : Rings, slot : Nat, sleeps : BOOLEAN]]

\* The 16-bit tail stands at the slot of the count it was reduced from.
Positions == \A r \in Rings : tail[r] % Size(r) = issued[r] % Size(r)

\* One thread at a time fills an entry of a ring: the one at the tail, of
\* which it has written as much as its progress says.
Fillers ==
    \A r \in Rings, t \in Callers : Fills(t, r) =>
        /\ \A u \in Callers : Fills(u, r) => u = t
        /\ issued[r] < MaxCalls /\ call[t].slot = issued[r] % Size(r)
        /\ call[t].at \in {"rest", "tail"} =>
              entry[r][call[t].slot].first = issued[r] + 1
        /\ call[t].at = "tail" => entry[r][call[t].slot].rest = issued[r] + 1

\* The entries that no later call has reached are whole, fetched or not.
Kept(r) ==
    \A k \in 1 .. issued[r] :
       issued[r] + (IF Filling(r) THEN 1 ELSE 0) - k < Size(r) =>
           entry[r][(k - 1) % Size(r)] = [first |-> k, rest |-> k]

WifiInv == WifiTypes /\ Positions /\ Fillers /\ \A r \in Rings : Kept(r)

-------------------------------------------------------------------------------
(* Facts the steps share. *)

\* The two ring sizes and the tail.
LEMMA Sizes ==
    ASSUME NEW r \in Rings
    PROVE  Size(r) \in Nat \ {0} /\ TailSpan \in Nat \ {0} /\ TailSpan % Size(r) = 0
BY SizeAssumption, SpanAssumption DEF Size

LEMMA Numbers ==
    ASSUME WifiInv, NEW r \in Rings
    PROVE  /\ MaxCalls \in Nat
           /\ issued[r] \in Nat /\ issued[r] <= MaxCalls
           /\ fetched[r] \in Nat /\ fetched[r] <= issued[r]
           /\ tail[r] \in 0 .. TailSpan - 1
           /\ issued[r] % Size(r) \in Slots(r)
           /\ tail[r] % Size(r) \in Slots(r)
<1>1. /\ MaxCalls \in Nat /\ issued[r] \in Nat /\ issued[r] <= MaxCalls
      /\ fetched[r] \in Nat /\ fetched[r] <= issued[r]
      /\ tail[r] \in 0 .. TailSpan - 1
  BY BoundAssumption DEF WifiInv, WifiTypes, WifiTypeOK
<1>2. issued[r] % Size(r) \in Slots(r)
  BY <1>1, Sizes, QuotientRemainder DEF Slots
<1> QED
  BY <1>1, <1>2 DEF WifiInv, Positions

\* The entry being filled is not one of those still kept.
LEMMA KeptElsewhere ==
    ASSUME WifiInv, NEW r \in Rings, NEW k \in 1 .. issued[r], issued[r] + 1 - k < Size(r)
    PROVE  (k - 1) % Size(r) \in Slots(r) /\ (k - 1) % Size(r) # issued[r] % Size(r)
<1>1. k - 1 \in Nat /\ k - 1 < issued[r] /\ issued[r] - (k - 1) < Size(r)
  BY Numbers, Sizes
<1>2. (k - 1) % Size(r) \in Slots(r)
  BY <1>1, Sizes, QuotientRemainder DEF Slots
<1> QED
  BY <1>1, <1>2, Numbers, Sizes, SlotsDiffer

\* A step of thread t that leaves it filling as it was, or not at all.
LEMMA FillingStays ==
    ASSUME NEW t \in Callers, NEW r \in Rings,
           \A u \in Callers : u # t => call'[u] = call[u],
           Fills(t, r)' <=> Fills(t, r)
    PROVE  Filling(r)' <=> Filling(r)
BY DEF Filling, Fills

-------------------------------------------------------------------------------

\* No entry is issued at first.
LEMMA WifiInitInv == WifiInit => WifiInv
<1> SUFFICES ASSUME WifiInit PROVE WifiInv
  OBVIOUS
<1>1. /\ \A r \in Rings : tail[r] = 0 /\ issued[r] = 0 /\ fetched[r] = 0
      /\ \A r \in Rings : entry[r] = [s \in Slots(r) |-> Empty]
      /\ \A t \in Callers : call[t] = Idle
  BY DEF WifiInit
<1>2. WifiTypes
  <2>1. /\ 0 \in 0 .. TailSpan - 1 /\ 0 \in 0 .. MaxCalls
        /\ \A r \in Rings : 0 \in Slots(r)
    BY SizeAssumption, SpanAssumption, BoundAssumption DEF Slots, Size, Rings
  <2>2. Empty \in Entries
    BY <2>1 DEF Empty, Entries
  <2>3. \A r \in Rings : entry[r] \in [Slots(r) -> Entries]
    BY <1>1, <2>2
  <2>4. call \in [Callers -> [at : Stages, ring : Rings, slot : Nat, sleeps : BOOLEAN]]
    BY DEF WifiInit, Idle, Stages, Rings
  <2>5. \A t \in Callers :
          /\ call[t].at \in {"idle", "first", "rest", "tail", "sleep"}
          /\ call[t].ring \in Rings /\ call[t].slot \in Slots(call[t].ring)
          /\ call[t].sleeps \in BOOLEAN
    <3>1. \A t \in Callers : /\ call[t].at = "idle" /\ call[t].ring = "tx"
                             /\ call[t].slot = 0 /\ call[t].sleeps = FALSE
      BY <1>1 DEF Idle
    <3> QED
      BY <2>1, <3>1 DEF Rings
  <2>6. /\ tail \in [Rings -> 0 .. TailSpan - 1] /\ issued \in [Rings -> 0 .. MaxCalls]
        /\ \A r \in Rings : fetched[r] \in 0 .. issued[r]
    BY <1>1, <2>1 DEF WifiInit
  <2>7. entry = [r \in Rings |-> entry[r]]
    BY DEF WifiInit
  <2> QED
    BY <2>3, <2>4, <2>5, <2>6, <2>7 DEF WifiInit, WifiTypes, WifiTypeOK
<1>3. Positions
  BY <1>1 DEF Positions
<1>4. Fillers
  BY <1>1 DEF Fillers, Fills, Idle
<1>5. \A r \in Rings : Kept(r)
  BY <1>1 DEF Kept
<1> QED
  BY <1>2, <1>3, <1>4, <1>5 DEF WifiInv

\* A call takes the entry at the tail.
LEMMA BeginInv ==
    ASSUME WifiInv, NEW t \in Callers, NEW r \in Rings, NEW sleeps \in BOOLEAN,
           Begin(t, r, sleeps)
    PROVE  WifiInv'
<1>1. /\ call[t] = Idle /\ ~Filling(r) /\ issued[r] < MaxCalls
      /\ call' = [call EXCEPT ![t] =
             [at |-> "first", ring |-> r, slot |-> tail[r] % Size(r),
              sleeps |-> sleeps]]
      /\ UNCHANGED <<driver, firmwareLoaded, entry, tail, issued, fetched>>
  BY DEF Begin
<1>2. tail[r] % Size(r) \in Slots(r) /\ tail[r] % Size(r) = issued[r] % Size(r)
  BY Numbers DEF WifiInv, Positions
<1>3. \A s \in Slots(r) : s \in Nat
  BY Sizes DEF Slots
<1>4. /\ call'[t].at = "first" /\ call'[t].ring = r /\ call'[t].slot = tail[r] % Size(r)
      /\ call'[t].sleeps = sleeps
      /\ \A u \in Callers : u # t => call'[u] = call[u]
      /\ call' \in [Callers -> [at : Stages, ring : Rings, slot : Nat, sleeps : BOOLEAN]]
  BY <1>1, <1>2, <1>3 DEF WifiInv, WifiTypes, Stages
<1>5. WifiTypes'
  <2>1. ASSUME NEW u \in Callers
        PROVE  /\ call'[u].at \in {"idle", "first", "rest", "tail", "sleep"}
               /\ call'[u].ring \in Rings /\ call'[u].slot \in Slots(call'[u].ring)
               /\ call'[u].sleeps \in BOOLEAN
    BY <1>2, <1>4 DEF WifiInv, WifiTypes, WifiTypeOK
  <2> QED
    BY <1>1, <1>4, <2>1 DEF WifiInv, WifiTypes, WifiTypeOK
<1>6. Positions'
  BY <1>1 DEF WifiInv, Positions
<1>7. /\ Fills(t, r)' /\ \A q \in Rings : q # r => ~Fills(t, q)'
      /\ \A q \in Rings : ~Fills(t, q)
      /\ \A u \in Callers, q \in Rings : u # t => (Fills(u, q)' <=> Fills(u, q))
      /\ \A u \in Callers : ~Fills(u, r)
  BY <1>1, <1>4 DEF Fills, Filling, Idle
<1>8. Fillers'
  <2> SUFFICES ASSUME NEW q \in Rings, NEW u \in Callers, Fills(u, q)'
               PROVE  /\ \A w \in Callers : Fills(w, q)' => w = u
                      /\ issued[q] < MaxCalls /\ call'[u].slot = issued[q] % Size(q)
                      /\ call'[u].at \in {"rest", "tail"} =>
                            entry[q][call'[u].slot].first = issued[q] + 1
                      /\ call'[u].at = "tail" => entry[q][call'[u].slot].rest = issued[q] + 1
    BY <1>1 DEF Fillers
  <2>1. CASE u = t
    <3>1. q = r
      BY <1>7, <2>1
    <3> QED
      BY <1>1, <1>2, <1>4, <1>7, <2>1, <3>1
  <2>2. CASE u # t
    <3>1. Fills(u, q) /\ q # r /\ call'[u] = call[u]
      BY <1>4, <1>7, <2>2
    <3>2. \A w \in Callers : Fills(w, q)' => w = u
      BY <1>7, <3>1 DEF WifiInv, Fillers
    <3> QED
      BY <3>1, <3>2 DEF WifiInv, Fillers
  <2> QED
    BY <2>1, <2>2
<1>9. ASSUME NEW q \in Rings PROVE Kept(q)'
  <2>1. CASE q = r
    <3>1. Filling(r)'
      BY <1>7 DEF Filling, Fills
    <3>2. \A k \in 1 .. issued[r] :
             issued[r] + 1 - k < Size(r) => issued[r] + 0 - k < Size(r)
      BY Numbers, Sizes
    <3> QED
      BY <1>1, <2>1, <3>1, <3>2 DEF WifiInv, Kept
  <2>2. CASE q # r
    <3>1. Filling(q)' <=> Filling(q)
      BY <1>4, <1>7, <2>2, FillingStays
    <3> QED
      BY <1>1, <3>1 DEF WifiInv, Kept
  <2> QED
    BY <2>1, <2>2
<1> QED
  BY <1>5, <1>6, <1>8, <1>9 DEF WifiInv

\* Thread t makes its entry e and goes on to stage "at".
Stores(t, e, at) ==
    /\ entry' = [entry EXCEPT ![call[t].ring] =
                     [entry[call[t].ring] EXCEPT ![call[t].slot] = e]]
    /\ call' = [call EXCEPT ![t].at = at]
    /\ UNCHANGED <<driver, firmwareLoaded, tail, issued, fetched>>

\* A fill changes one entry, the one at its ring's tail.
LEMMA FillEffect ==
    ASSUME WifiInv, NEW t \in Callers, NEW at \in Stages, NEW written \in Entries,
           call[t].at \in {"first", "rest"}, Stores(t, written, at)
    PROVE  /\ WifiTypes'
           /\ call'[t].at = at /\ call'[t].ring = call[t].ring /\ call'[t].slot = call[t].slot
           /\ \A u \in Callers : u # t => call'[u] = call[u]
           /\ \A q \in Rings : q # call[t].ring => entry'[q] = entry[q]
           /\ entry'[call[t].ring][call[t].slot] = written
           /\ \A z \in Slots(call[t].ring) : z # call[t].slot =>
                  entry'[call[t].ring][z] = entry[call[t].ring][z]
<1> DEFINE r == call[t].ring
           s == call[t].slot
<1>0. /\ entry' = [entry EXCEPT ![r] = [entry[r] EXCEPT ![s] = written]]
      /\ call' = [call EXCEPT ![t].at = at]
      /\ UNCHANGED <<driver, firmwareLoaded, tail, issued, fetched>>
  BY DEF Stores
<1>1. r \in Rings /\ s \in Slots(r)
  BY DEF WifiInv, WifiTypes, WifiTypeOK
<1>2. /\ entry'[r] = [entry[r] EXCEPT ![s] = written]
      /\ \A q \in Rings : q # r => entry'[q] = entry[q]
      /\ entry' = [q \in Rings |-> entry'[q]]
  BY <1>0, <1>1 DEF WifiInv, WifiTypes
<1>3. /\ entry'[r][s] = written
      /\ \A z \in Slots(r) : z # s => entry'[r][z] = entry[r][z]
      /\ entry'[r] \in [Slots(r) -> Entries]
  <2>1. entry[r] \in [Slots(r) -> Entries]
    BY <1>1 DEF WifiInv, WifiTypes, WifiTypeOK
  <2> QED
    BY <1>1, <1>2, <2>1
<1>4. /\ call' \in [Callers -> [at : Stages, ring : Rings, slot : Nat, sleeps : BOOLEAN]]
      /\ call'[t].at = at /\ call'[t].ring = r /\ call'[t].slot = s
      /\ call'[t].sleeps = call[t].sleeps
      /\ \A u \in Callers : u # t => call'[u] = call[u]
  BY <1>0 DEF WifiInv, WifiTypes
<1>5. WifiTypes'
  <2>1. \A q \in Rings : entry'[q] \in [Slots(q) -> Entries]
    BY <1>2, <1>3 DEF WifiInv, WifiTypes, WifiTypeOK
  <2>2. ASSUME NEW u \in Callers
        PROVE  /\ call'[u].at \in {"idle", "first", "rest", "tail", "sleep"}
               /\ call'[u].ring \in Rings /\ call'[u].slot \in Slots(call'[u].ring)
               /\ call'[u].sleeps \in BOOLEAN
    BY <1>1, <1>4 DEF WifiInv, WifiTypes, WifiTypeOK, Stages
  <2> QED
    BY <1>0, <1>2, <1>4, <2>1, <2>2 DEF WifiInv, WifiTypes, WifiTypeOK
<1> QED
  BY <1>2, <1>3, <1>4, <1>5

\* The entry under a filling thread, and the number that it writes there.
LEMMA FillPlace ==
    ASSUME WifiInv, NEW t \in Callers, NEW r, NEW s, r = call[t].ring, s = call[t].slot,
           call[t].at \in {"first", "rest", "tail"}
    PROVE  /\ r \in Rings /\ Fills(t, r) /\ s \in Slots(r)
           /\ s = issued[r] % Size(r) /\ issued[r] < MaxCalls
           /\ issued[r] + 1 \in 0 .. MaxCalls
           /\ entry[r][s] \in Entries
<1>1. /\ r \in Rings /\ Fills(t, r) /\ s \in Slots(r)
      /\ s = issued[r] % Size(r) /\ issued[r] < MaxCalls
  BY DEF WifiInv, WifiTypes, WifiTypeOK, Fillers, Fills
<1>2. issued[r] + 1 \in 0 .. MaxCalls
  BY <1>1, Numbers
<1>3. entry[r][s] \in Entries
  BY <1>1 DEF WifiInv, WifiTypes, WifiTypeOK
<1> QED
  BY <1>1, <1>2, <1>3

\* What a fill leaves of the kept entries: all, since it writes to the one at
\* the tail.
LEMMA KeptStays ==
    ASSUME WifiInv, NEW t \in Callers, NEW r \in Rings, Fills(t, r),
           UNCHANGED issued,
           \A q \in Rings : Filling(q)' <=> Filling(q),
           \A q \in Rings : q # r => entry'[q] = entry[q],
           \A z \in Slots(r) : z # call[t].slot => entry'[r][z] = entry[r][z]
    PROVE  \A q \in Rings : Kept(q)'
<1>1. Filling(r) /\ call[t].slot = issued[r] % Size(r)
  BY DEF WifiInv, Fillers, Filling, Fills
<1>2. Kept(r)'
  <2> SUFFICES ASSUME NEW k \in 1 .. issued[r], issued[r] + 1 - k < Size(r)
               PROVE  entry'[r][(k - 1) % Size(r)] = [first |-> k, rest |-> k]
    BY <1>1 DEF Kept
  <2>1. entry[r][(k - 1) % Size(r)] = [first |-> k, rest |-> k]
    BY <1>1 DEF WifiInv, Kept
  <2>2. (k - 1) % Size(r) \in Slots(r) /\ (k - 1) % Size(r) # issued[r] % Size(r)
    BY KeptElsewhere
  <2> QED
    BY <1>1, <2>1, <2>2
<1>3. \A q \in Rings : q # r => Kept(q)'
  BY DEF WifiInv, Kept
<1> QED
  BY <1>2, <1>3

\* It writes the first part, then the rest.
LEMMA FillFirstInv ==
    ASSUME WifiInv, NEW t \in Callers, FillFirst(t) PROVE WifiInv'
<1> SUFFICES ASSUME NEW r, NEW s, r = call[t].ring, s = call[t].slot PROVE WifiInv'
  OBVIOUS
<1>1. /\ call[t].at = "first"
      /\ entry' = [entry EXCEPT ![r][s].first = issued[r] + 1]
      /\ call' = [call EXCEPT ![t].at = "rest"]
      /\ UNCHANGED <<driver, firmwareLoaded, tail, issued, fetched>>
  BY DEF FillFirst
<1>2. /\ r \in Rings /\ Fills(t, r) /\ s \in Slots(r)
      /\ s = issued[r] % Size(r) /\ issued[r] < MaxCalls
      /\ issued[r] + 1 \in 0 .. MaxCalls
      /\ entry[r][s] \in Entries
  BY <1>1, FillPlace
<1> DEFINE written == [entry[r][s] EXCEPT !.first = issued[r] + 1]
<1>3. /\ written \in Entries
      /\ written.first = issued[r] + 1
  BY <1>2 DEF Entries
<1> HIDE DEF written
<1>4. /\ WifiTypes'
      /\ call'[t].at = "rest" /\ call'[t].ring = r /\ call'[t].slot = s
      /\ \A u \in Callers : u # t => call'[u] = call[u]
      /\ \A q \in Rings : q # r => entry'[q] = entry[q]
      /\ entry'[r][s] = written
      /\ \A z \in Slots(r) : z # s => entry'[r][z] = entry[r][z]
  <2>1. Stores(t, written, "rest")
    BY <1>1 DEF written, Stores
  <2>2. "rest" \in Stages /\ call[t].at \in {"first", "rest"}
    BY <1>1 DEF Stages
  <2> QED
    BY <1>3, <2>1, <2>2, FillEffect
<1>5. /\ \A u \in Callers, q \in Rings : Fills(u, q)' <=> Fills(u, q)
      /\ \A q \in Rings : Filling(q)' <=> Filling(q)
  <2>1. ASSUME NEW u \in Callers, NEW q \in Rings
        PROVE  Fills(u, q)' <=> Fills(u, q)
    <3>1. CASE u = t
      BY <1>1, <1>2, <1>3, <1>4, <3>1 DEF Fills
    <3>2. CASE u # t
      BY <1>2, <1>3, <1>4, <3>2 DEF Fills
    <3> QED
      BY <3>1, <3>2
  <2>2. \A q \in Rings : /\ Filling(q) <=> \E u \in Callers : Fills(u, q)
                         /\ Filling(q)' <=> \E u \in Callers : Fills(u, q)'
    BY DEF Filling, Fills
  <2> QED
    BY <2>1, <2>2
<1>6. Fillers'
  <2> SUFFICES ASSUME NEW q \in Rings, NEW u \in Callers, Fills(u, q)
               PROVE  /\ \A w \in Callers : Fills(w, q) => w = u
                      /\ issued[q] < MaxCalls /\ call'[u].slot = issued[q] % Size(q)
                      /\ call'[u].at \in {"rest", "tail"} =>
                            entry'[q][call'[u].slot].first = issued[q] + 1
                      /\ call'[u].at = "tail" => entry'[q][call'[u].slot].rest = issued[q] + 1
    BY <1>1, <1>5 DEF Fillers
  <2>1. \A w \in Callers : Fills(w, q) => w = u
    BY DEF WifiInv, Fillers
  <2>2. CASE u = t
    <3>1. q = r
      BY <2>2 DEF Fills
    <3> QED
      BY <1>2, <1>3, <1>4, <2>1, <2>2, <3>1
  <2>3. CASE u # t
    <3>1. q # r /\ call'[u] = call[u] /\ entry'[q] = entry[q]
      BY <1>2, <1>3, <1>4, <2>1, <2>3
    <3> QED
      BY <2>1, <3>1 DEF WifiInv, Fillers
  <2> QED
    BY <2>2, <2>3
<1>7. \A q \in Rings : Kept(q)'
  BY <1>1, <1>2, <1>3, <1>4, <1>5, KeptStays
<1>8. Positions'
  BY <1>1 DEF WifiInv, Positions
<1> QED
  BY <1>4, <1>6, <1>7, <1>8 DEF WifiInv

LEMMA FillRestInv ==
    ASSUME WifiInv, NEW t \in Callers, FillRest(t) PROVE WifiInv'
<1> SUFFICES ASSUME NEW r, NEW s, r = call[t].ring, s = call[t].slot PROVE WifiInv'
  OBVIOUS
<1>1. /\ call[t].at = "rest"
      /\ entry' = [entry EXCEPT ![r][s].rest = issued[r] + 1]
      /\ call' = [call EXCEPT ![t].at = "tail"]
      /\ UNCHANGED <<driver, firmwareLoaded, tail, issued, fetched>>
  BY DEF FillRest
<1>2. /\ r \in Rings /\ Fills(t, r) /\ s \in Slots(r)
      /\ s = issued[r] % Size(r) /\ issued[r] < MaxCalls
      /\ issued[r] + 1 \in 0 .. MaxCalls
      /\ entry[r][s] \in Entries
  BY <1>1, FillPlace
<1> DEFINE written == [entry[r][s] EXCEPT !.rest = issued[r] + 1]
<1>3. /\ written \in Entries
      /\ written.rest = issued[r] + 1 /\ written.first = entry[r][s].first
  BY <1>2 DEF Entries
<1> HIDE DEF written
<1>4. /\ WifiTypes'
      /\ call'[t].at = "tail" /\ call'[t].ring = r /\ call'[t].slot = s
      /\ \A u \in Callers : u # t => call'[u] = call[u]
      /\ \A q \in Rings : q # r => entry'[q] = entry[q]
      /\ entry'[r][s] = written
      /\ \A z \in Slots(r) : z # s => entry'[r][z] = entry[r][z]
  <2>1. Stores(t, written, "tail")
    BY <1>1 DEF written, Stores
  <2>2. "tail" \in Stages /\ call[t].at \in {"first", "rest"}
    BY <1>1 DEF Stages
  <2> QED
    BY <1>3, <2>1, <2>2, FillEffect
<1>5. /\ \A u \in Callers, q \in Rings : Fills(u, q)' <=> Fills(u, q)
      /\ \A q \in Rings : Filling(q)' <=> Filling(q)
  <2>1. ASSUME NEW u \in Callers, NEW q \in Rings
        PROVE  Fills(u, q)' <=> Fills(u, q)
    <3>1. CASE u = t
      BY <1>1, <1>2, <1>3, <1>4, <3>1 DEF Fills
    <3>2. CASE u # t
      BY <1>2, <1>3, <1>4, <3>2 DEF Fills
    <3> QED
      BY <3>1, <3>2
  <2>2. \A q \in Rings : /\ Filling(q) <=> \E u \in Callers : Fills(u, q)
                         /\ Filling(q)' <=> \E u \in Callers : Fills(u, q)'
    BY DEF Filling, Fills
  <2> QED
    BY <2>1, <2>2
<1>6. Fillers'
  <2> SUFFICES ASSUME NEW q \in Rings, NEW u \in Callers, Fills(u, q)
               PROVE  /\ \A w \in Callers : Fills(w, q) => w = u
                      /\ issued[q] < MaxCalls /\ call'[u].slot = issued[q] % Size(q)
                      /\ call'[u].at \in {"rest", "tail"} =>
                            entry'[q][call'[u].slot].first = issued[q] + 1
                      /\ call'[u].at = "tail" => entry'[q][call'[u].slot].rest = issued[q] + 1
    BY <1>1, <1>5 DEF Fillers
  <2>1. \A w \in Callers : Fills(w, q) => w = u
    BY DEF WifiInv, Fillers
  <2>2. CASE u = t
    <3>1. q = r
      BY <2>2 DEF Fills
    <3>2. entry[r][call[t].slot].first = issued[r] + 1
      BY <1>1, <1>2 DEF WifiInv, Fillers
    <3> QED
      BY <1>2, <1>3, <1>4, <2>1, <2>2, <3>1, <3>2
  <2>3. CASE u # t
    <3>1. q # r /\ call'[u] = call[u] /\ entry'[q] = entry[q]
      BY <1>2, <1>3, <1>4, <2>1, <2>3
    <3> QED
      BY <2>1, <3>1 DEF WifiInv, Fillers
  <2> QED
    BY <2>2, <2>3
<1>7. \A q \in Rings : Kept(q)'
  BY <1>1, <1>2, <1>3, <1>4, <1>5, KeptStays
<1>8. Positions'
  BY <1>1 DEF WifiInv, Positions
<1> QED
  BY <1>4, <1>6, <1>7, <1>8 DEF WifiInv

\* The tail moves past a whole entry.
LEMMA AdvanceInv ==
    ASSUME WifiInv, NEW t \in Callers, Advance(t) PROVE WifiInv'
<1> SUFFICES ASSUME NEW r, NEW s, r = call[t].ring, s = call[t].slot PROVE WifiInv'
  OBVIOUS
<1> DEFINE after == IF call[t].sleeps THEN [call[t] EXCEPT !.at = "sleep"] ELSE Idle
<1>1. /\ call[t].at = "tail"
      /\ tail' = [tail EXCEPT ![r] = (tail[r] + 1) % TailSpan]
      /\ issued' = [issued EXCEPT ![r] = issued[r] + 1]
      /\ call' = [call EXCEPT ![t] = after]
      /\ UNCHANGED <<driver, firmwareLoaded, entry, fetched>>
  BY DEF Advance
<1>2. /\ r \in Rings /\ Fills(t, r) /\ s \in Slots(r)
      /\ s = issued[r] % Size(r) /\ issued[r] < MaxCalls
      /\ entry[r][s].first = issued[r] + 1 /\ entry[r][s].rest = issued[r] + 1
      /\ \A u \in Callers : Fills(u, r) => u = t
  <2>1. /\ r \in Rings /\ Fills(t, r) /\ s \in Slots(r)
        /\ s = issued[r] % Size(r) /\ issued[r] < MaxCalls
    BY <1>1, FillPlace
  <2> QED
    BY <1>1, <2>1 DEF WifiInv, Fillers
<1>3. /\ after \in [at : Stages, ring : Rings, slot : Nat, sleeps : BOOLEAN]
      /\ after.at \in {"idle", "sleep"} /\ after.slot \in Slots(after.ring)
  <2>1. call[t] \in [at : Stages, ring : Rings, slot : Nat, sleeps : BOOLEAN]
    BY DEF WifiInv, WifiTypes
  <2>2. 0 \in Slots("tx")
    BY SizeAssumption DEF Slots, Size
  <2> QED
    BY <1>2, <2>1, <2>2 DEF Idle, Stages, Rings
<1> HIDE DEF after
<1>4. /\ call' \in [Callers -> [at : Stages, ring : Rings, slot : Nat, sleeps : BOOLEAN]]
      /\ call'[t] = after /\ \A u \in Callers : u # t => call'[u] = call[u]
  BY <1>1, <1>3 DEF WifiInv, WifiTypes
<1>5. /\ tail'[r] = (tail[r] + 1) % TailSpan /\ issued'[r] = issued[r] + 1
      /\ \A q \in Rings : q # r => tail'[q] = tail[q] /\ issued'[q] = issued[q]
  BY <1>1, <1>2 DEF WifiInv, WifiTypes, WifiTypeOK
<1>6. /\ Size(r) \in Nat \ {0} /\ TailSpan \in Nat \ {0} /\ TailSpan % Size(r) = 0
      /\ tail[r] \in 0 .. TailSpan - 1 /\ issued[r] \in Nat
      /\ issued[r] + 1 \in 0 .. MaxCalls
  BY <1>2, Sizes, Numbers
<1>7. (tail[r] + 1) % TailSpan \in 0 .. TailSpan - 1
  BY <1>6, WrappedCounter
<1>8. WifiTypes'
  <2>1. ASSUME NEW u \in Callers
        PROVE  /\ call'[u].at \in {"idle", "first", "rest", "tail", "sleep"}
               /\ call'[u].ring \in Rings /\ call'[u].slot \in Slots(call'[u].ring)
               /\ call'[u].sleeps \in BOOLEAN
    <3>1. CASE u = t
      BY <1>3, <1>4, <3>1
    <3>2. CASE u # t
      BY <1>4, <3>2 DEF WifiInv, WifiTypes, WifiTypeOK
    <3> QED
      BY <3>1, <3>2
  <2>2. tail' \in [Rings -> 0 .. TailSpan - 1] /\ issued' \in [Rings -> 0 .. MaxCalls]
    BY <1>1, <1>6, <1>7 DEF WifiInv, WifiTypes, WifiTypeOK
  <2>3. \A q \in Rings : fetched[q] \in 0 .. issued'[q]
    <3>1. \A q \in Rings : fetched[q] \in 0 .. issued[q]
      BY DEF WifiInv, WifiTypes, WifiTypeOK
    <3>2. 0 .. issued[r] \subseteq 0 .. issued[r] + 1
      BY <1>6
    <3> QED
      BY <1>5, <3>1, <3>2
  <2> QED
    BY <1>1, <1>4, <2>1, <2>2, <2>3 DEF WifiInv, WifiTypes, WifiTypeOK
<1>9. Positions'
  <2>1. tail'[r] % Size(r) = issued'[r] % Size(r)
    <3>1. ((tail[r] + 1) % TailSpan) % Size(r) = ((tail[r] % Size(r)) + 1) % Size(r)
      <4> DEFINE N == Size(r)
                 a == tail[r]
      <4>1. N \in Nat \ {0} /\ TailSpan \in Nat \ {0} /\ TailSpan % N = 0 /\ a \in 0 .. TailSpan - 1
        BY <1>6
      <4> HIDE DEF N, a
      <4>2. ((a + 1) % TailSpan) % N = ((a % N) + 1) % N
        BY <4>1, WrappedCounter
      <4> QED
        BY <4>2 DEF N, a
    <3>2. issued'[r] % Size(r) = ((issued[r] % Size(r)) + 1) % Size(r)
      BY <1>5, <1>6, SlotSuccessor
    <3>3. tail[r] % Size(r) = issued[r] % Size(r)
      BY <1>2 DEF WifiInv, Positions
    <3> QED
      BY <1>5, <3>1, <3>2, <3>3
  <2>2. \A q \in Rings : q # r => tail'[q] % Size(q) = issued'[q] % Size(q)
    BY <1>5 DEF WifiInv, Positions
  <2> QED
    BY <2>1, <2>2 DEF Positions
<1>10. /\ \A q \in Rings : ~Fills(t, q)' /\ (q # r => ~Fills(t, q))
       /\ \A u \in Callers, q \in Rings : u # t => (Fills(u, q)' <=> Fills(u, q))
       /\ ~Filling(r)' /\ Filling(r)
       /\ \A q \in Rings : q # r => (Filling(q)' <=> Filling(q))
  <2>1. /\ \A q \in Rings : ~Fills(t, q)' /\ (q # r => ~Fills(t, q))
        /\ \A u \in Callers, q \in Rings : u # t => (Fills(u, q)' <=> Fills(u, q))
    BY <1>3, <1>4 DEF Fills
  <2>2. \A q \in Rings : /\ Filling(q) <=> \E u \in Callers : Fills(u, q)
                         /\ Filling(q)' <=> \E u \in Callers : Fills(u, q)'
    BY DEF Filling, Fills
  <2> QED
    BY <1>2, <2>1, <2>2
<1>11. Fillers'
  <2> SUFFICES ASSUME NEW q \in Rings, NEW u \in Callers, Fills(u, q)'
               PROVE  /\ \A w \in Callers : Fills(w, q)' => w = u
                      /\ issued'[q] < MaxCalls /\ call'[u].slot = issued'[q] % Size(q)
                      /\ call'[u].at \in {"rest", "tail"} =>
                            entry[q][call'[u].slot].first = issued'[q] + 1
                      /\ call'[u].at = "tail" => entry[q][call'[u].slot].rest = issued'[q] + 1
    BY <1>1 DEF Fillers
  <2>1. u # t /\ Fills(u, q) /\ q # r
    BY <1>2, <1>10
  <2>2. call'[u] = call[u] /\ issued'[q] = issued[q]
    BY <1>4, <1>5, <2>1
  <2>3. \A w \in Callers : Fills(w, q)' => w = u
    BY <1>10, <2>1 DEF WifiInv, Fillers
  <2> QED
    BY <2>1, <2>2, <2>3 DEF WifiInv, Fillers
<1>12. ASSUME NEW q \in Rings PROVE Kept(q)'
  <2>1. CASE q = r
    <3> SUFFICES ASSUME NEW k \in 1 .. issued[r] + 1, issued[r] + 1 + 0 - k < Size(r)
                 PROVE  entry[r][(k - 1) % Size(r)] = [first |-> k, rest |-> k]
      BY <1>1, <1>5, <1>10, <2>1 DEF Kept
    <3>1. CASE k = issued[r] + 1
      <4>1. k - 1 = issued[r]
        BY <1>6, <3>1
      <4>2. entry[r][s] \in Entries
        BY <1>2 DEF WifiInv, WifiTypes, WifiTypeOK
      <4>3. entry[r][s] = [first |-> k, rest |-> k]
        BY <1>2, <3>1, <4>2 DEF Entries
      <4> QED
        BY <1>2, <4>1, <4>3
    <3>2. CASE k # issued[r] + 1
      <4>1. k \in 1 .. issued[r]
        BY <1>6, <3>2
      <4>2. issued[r] + 1 - k < Size(r)
        BY <1>6
      <4> QED
        BY <1>2, <1>10, <4>1, <4>2 DEF WifiInv, Kept
    <3> QED
      BY <3>1, <3>2
  <2>2. CASE q # r
    BY <1>1, <1>5, <1>10, <2>2 DEF WifiInv, Kept
  <2> QED
    BY <2>1, <2>2
<1> QED
  BY <1>8, <1>9, <1>11, <1>12 DEF WifiInv

\* What sleeps, and what the firmware does, touches no entry.
LEMMA WakeInv ==
    ASSUME WifiInv, NEW t \in Callers, Wake(t) PROVE WifiInv'
<1>1. /\ call[t].at = "sleep"
      /\ call' = [call EXCEPT ![t] = Idle]
      /\ UNCHANGED <<driver, firmwareLoaded, entry, tail, issued, fetched>>
  BY DEF Wake
<1>2. /\ Idle \in [at : Stages, ring : Rings, slot : Nat, sleeps : BOOLEAN]
      /\ Idle.at = "idle" /\ Idle.slot \in Slots(Idle.ring)
  BY SizeAssumption DEF Idle, Stages, Rings, Slots, Size
<1>3. /\ call' \in [Callers -> [at : Stages, ring : Rings, slot : Nat, sleeps : BOOLEAN]]
      /\ call'[t] = Idle /\ \A u \in Callers : u # t => call'[u] = call[u]
  BY <1>1, <1>2 DEF WifiInv, WifiTypes
<1>4. WifiTypes'
  <2>1. ASSUME NEW u \in Callers
        PROVE  /\ call'[u].at \in {"idle", "first", "rest", "tail", "sleep"}
               /\ call'[u].ring \in Rings /\ call'[u].slot \in Slots(call'[u].ring)
               /\ call'[u].sleeps \in BOOLEAN
    <3>1. CASE u = t
      BY <1>2, <1>3, <3>1
    <3>2. CASE u # t
      BY <1>3, <3>2 DEF WifiInv, WifiTypes, WifiTypeOK
    <3> QED
      BY <3>1, <3>2
  <2> QED
    BY <1>1, <1>3, <2>1 DEF WifiInv, WifiTypes, WifiTypeOK
<1>5. /\ \A u \in Callers, q \in Rings : Fills(u, q)' <=> Fills(u, q)
      /\ \A u \in Callers, q \in Rings : Fills(u, q) => call'[u] = call[u]
      /\ \A q \in Rings : Filling(q)' <=> Filling(q)
  BY <1>1, <1>2, <1>3 DEF Fills, Filling
<1>6. Fillers'
  BY <1>1, <1>5 DEF WifiInv, Fillers
<1>7. Positions' /\ \A q \in Rings : Kept(q)'
  BY <1>1, <1>5 DEF WifiInv, Positions, Kept
<1> QED
  BY <1>4, <1>6, <1>7 DEF WifiInv

LEMMA FirmwareFetchInv ==
    ASSUME WifiInv, NEW r \in Rings, FirmwareFetch(r) PROVE WifiInv'
<1>1. /\ fetched[r] < issued[r]
      /\ fetched' = [fetched EXCEPT ![r] = fetched[r] + 1]
      /\ UNCHANGED <<driver, firmwareLoaded, entry, tail, call, issued>>
  BY DEF FirmwareFetch
<1>2. \A q \in Rings : fetched'[q] \in 0 .. issued[q]
  BY <1>1, Numbers
<1>3. WifiTypes'
  BY <1>1, <1>2 DEF WifiInv, WifiTypes, WifiTypeOK
<1>4. Positions' /\ Fillers'
  BY <1>1 DEF WifiInv, Positions, Fillers, Fills
<1>5. \A q \in Rings : Kept(q)'
  BY <1>1 DEF WifiInv, Kept, Filling
<1> QED
  BY <1>3, <1>4, <1>5 DEF WifiInv

-------------------------------------------------------------------------------

\* Every step, and stuttering.
LEMMA WifiNextInv == WifiInv /\ [WifiNext]_wifiVars => WifiInv'
<1> SUFFICES ASSUME WifiInv, [WifiNext]_wifiVars PROVE WifiInv'
  OBVIOUS
<1>1. CASE UNCHANGED wifiVars
  BY <1>1 DEF wifiVars, WifiInv, WifiTypes, WifiTypeOK, Positions, Fillers, Fills, Kept, Filling
<1>2. ASSUME NEW t \in Callers, Operation(t) PROVE WifiInv'
  <2>1. \E r \in Rings, sleeps \in BOOLEAN : Begin(t, r, sleeps)
    BY <1>2
       DEF Operation, IwlwifiSend, IwlwifiScan, IwlwifiConnect, IwlwifiDisconnect,
           Ath9kSend, Ath9kScan, Ath9kConnect, Ath9kDisconnect, Rtl8188Send,
           Rtl8188Scan, Rtl8188Connect, Rtl8188Disconnect, Rings
  <2> QED
    BY <2>1, BeginInv
<1>3. ASSUME NEW t \in Callers, FillFirst(t) \/ FillRest(t) \/ Advance(t) \/ Wake(t)
      PROVE  WifiInv'
  BY <1>3, FillFirstInv, FillRestInv, AdvanceInv, WakeInv
<1>4. ASSUME NEW r \in Rings, FirmwareFetch(r) PROVE WifiInv'
  BY <1>4, FirmwareFetchInv
<1> QED
  BY <1>1, <1>2, <1>3, <1>4 DEF WifiNext

\* WifiInv holds throughout.
LEMMA WifiInvariance == WifiSpec => []WifiInv
<1>1. WifiInit => WifiInv
  BY WifiInitInv
<1>2. WifiInv /\ [WifiNext]_wifiVars => WifiInv'
  BY WifiNextInv
<1> QED
  BY <1>1, <1>2, PTL DEF WifiSpec

\* The types of the two rings: the 16-bit tails wrap, and no thread ever
\* writes outside the ring it has chosen.
THEOREM WifiTypeCorrect == WifiSpec => []WifiTypeOK
<1>1. WifiInv => WifiTypeOK
  BY DEF WifiInv, WifiTypes
<1> QED
  BY <1>1, WifiInvariance, PTL

\* For every ring size, set of threads and wrap of the tail: an entry that
\* the firmware has not fetched is whole and in its slot until as many calls
\* as the ring has entries follow it.
THEOREM WifiQueueHoldsUnread == WifiSpec => []QueueHoldsUnread
<1>1. ASSUME WifiInv PROVE QueueHoldsUnread
  <2> SUFFICES ASSUME NEW r \in Rings, NEW k \in fetched[r] + 1 .. issued[r]
               PROVE  k \in 1 .. issued[r] /\ Kept(r)
    BY DEF QueueHoldsUnread, Kept
  <2> QED
    BY <1>1, Numbers DEF WifiInv
<1> QED
  BY <1>1, WifiInvariance, PTL
===============================================================================
