------------------------------ MODULE OtaProofs ------------------------------
(***************************************************************************)
(* Proofs about Ota for every pair of slots, set of images, slot size and  *)
(* choice of bounds.  Inv is inductive: Bookkeeping ties the upload's      *)
(* record to the flash.  BootChain says why only what was committed runs:  *)
(* an image is never marked valid, so from the spare slot the device runs  *)
(* unconfirmed and may not upload; uploads therefore always go to the      *)
(* spare slot, and there the boot loader tries only what it finds new.     *)
(***************************************************************************)
EXTENDS Ota, TLAPS

Spare == Other(First)

Bookkeeping ==
    /\ HandlesMatch
    /\ CountsAgree
    /\ UploadContained
    /\ up => running # None
    /\ s.active => running = First

BootChain ==
    /\ origin[First] = "usb"
    /\ Bootable(flash[First])
    /\ running = Spare => state[Spare] = "pending" /\ origin[Spare] # "open"
    /\ origin[Spare] = "open" => state[Spare] # "new"
    /\ state[Spare] = "undefined" => boot = First /\ state[First] = "undefined"

Inv == TypeOK /\ Bookkeeping /\ NeverBricked /\ BootChain

-----------------------------------------------------------------------------

USE OtaAssumption DEF idf, otadata, device, ghosts

LEMMA TwoSlots ==
    ASSUME NEW p \in Slots
    PROVE  /\ Other(p) \in Slots
           /\ Other(p) # p
           /\ \A q \in Slots : q = p \/ q = Other(p)
<1>1. \E q \in Slots : q # p
    OBVIOUS
<1>2. Other(p) \in Slots /\ Other(p) # p
    BY <1>1 DEF Other
<1> QED BY <1>2

LEMMA ExtendContent ==
    ASSUME NEW c \in Content, NEW i \in Images \cup {None}, NEW n \in Chunks
    PROVE  /\ Extend(c, i, n) \in Content
           /\ Extend(c, i, n).len = c.len + n
<1>1. n \in Nat /\ c.len \in Nat /\ c.img \in Images \cup {None}
    BY DEF Content
<1>2. c.len + n \in Nat
    BY <1>1
<1>3. (IF (c.len = 0 \/ c.img = i) /\ i \in Images /\ c.len + n <= Size[i]
       THEN i ELSE None) \in Images \cup {None}
    OBVIOUS
<1> QED BY <1>2, <1>3 DEF Extend, Content

LEMMA NoBytesContent == NoBytes \in Content
BY DEF NoBytes, Content

Slot == [Blocks -> Images \cup {None}]

LEMMA SlotTypes ==
    ASSUME NEW c \in Slot
    PROVE  /\ \A n : Erase(c, n) \in Slot
           /\ \A at, i, n : Write(c, at, i, n) \in Slot
<1>1. \A n : Erase(c, n) \in Slot
    BY DEF Erase, Slot
<1>2. \A at, i, n : Write(c, at, i, n) \in Slot
    BY DEF Write, Slot
<1> QED BY <1>1, <1>2

LEMMA FirstBlock == 0 \in Blocks /\ Cap \in Nat
<1>1. Size[Factory] \in Nat \ {0}
    OBVIOUS
<1> QED BY <1>1 DEF Blocks

\* What is hashed and what is written spell the same image after a chunk if
\* they did before it.
LEMMA SpellsChunk ==
    ASSUME NEW c \in Slot, NEW d \in Content, NEW i \in Images \cup {None},
           NEW n \in Chunks, d.len + n <= Cap, d.img = Spells(c, d.len)
    PROVE  Extend(d, i, n).img = Spells(Write(c, d.len, i, n), d.len + n)
<1> DEFINE r == d.len
           w == Write(c, r, i, n)
<1>1. r \in Nat /\ n \in Nat /\ n # 0 /\ r + n # 0 /\ r + n \in Nat
    <2>1. n \in Nat /\ n # 0 /\ r \in Nat
        BY DEF Content
    <2> HIDE DEF r
    <2> QED BY <2>1
<1>2. \A k \in Blocks : k \in Nat /\ (k < r + n <=> k < r \/ (k >= r /\ k < r + n))
    BY <1>1, FirstBlock DEF Blocks
<1>3. r \in Blocks /\ 0 \in Blocks
    BY <1>1, FirstBlock DEF Blocks
<1>4. \A k \in Blocks : k < r => w[k] = c[k]
    BY <1>1, <1>2 DEF Write
<1>5. \A k \in Blocks : k >= r /\ k < r + n
          => w[k] = IF i \in Images /\ k < Size[i] THEN i ELSE None
    BY <1>1, <1>2 DEF Write
<1>6. \A j \in Images : Size[j] \in Nat /\ 0 < Size[j]
    OBVIOUS
<1>7. Extend(d, i, n).img = IF (r = 0 \/ d.img = i) /\ i \in Images /\ r + n <= Size[i]
                            THEN i ELSE None
    BY DEF Extend
<1> SUFFICES Extend(d, i, n).img = Spells(w, r + n)
    OBVIOUS
<1> HIDE DEF r, w
<1>8. Spells(w, r + n) = IF /\ w[0] \in Images /\ r + n <= Size[w[0]]
                            /\ \A k \in Blocks : k < r + n => w[k] = w[0]
                         THEN w[0] ELSE None
    BY <1>1 DEF Spells
<1>9. CASE (r = 0 \/ d.img = i) /\ i \in Images /\ r + n <= Size[i]
    <2>1. \A k \in Blocks : k < r => c[k] = i
        <3>1. CASE r = 0
            BY <1>2, <3>1
        <3>2. CASE r # 0
            BY <1>9, <3>2 DEF Spells, r
        <3> QED BY <3>1, <3>2
    <2>2. \A k \in Blocks : k < r + n => w[k] = i
        <3> SUFFICES ASSUME NEW k \in Blocks, k < r + n PROVE w[k] = i
            OBVIOUS
        <3>1. CASE k < r
            BY <1>4, <2>1, <3>1
        <3>2. CASE ~(k < r)
            <4>1. k >= r /\ k < Size[i]
                BY <1>1, <1>2, <1>6, <1>9, <3>2
            <4> QED BY <1>5, <1>9, <4>1
        <3> QED BY <3>1, <3>2
    <2>3. w[0] = i
        <3>1. 0 < r + n
            BY <1>1
        <3> QED BY <1>3, <2>2, <3>1
    <2> QED BY <1>7, <1>8, <1>9, <2>2, <2>3
<1>10. CASE ~((r = 0 \/ d.img = i) /\ i \in Images /\ r + n <= Size[i])
    <2> SUFFICES ASSUME w[0] \in Images, r + n <= Size[w[0]],
                        \A k \in Blocks : k < r + n => w[k] = w[0]
                 PROVE  FALSE
        BY <1>7, <1>8, <1>10
    <2>1. w[r] = w[0]
        BY <1>1, <1>3
    <2>2. w[r] = IF i \in Images /\ r < Size[i] THEN i ELSE None
        BY <1>1, <1>3, <1>5
    <2>3. i \in Images /\ w[0] = i
        BY <2>1, <2>2
    <2>4. r # 0 /\ d.img # i
        BY <1>10, <2>3
    <2>5. \A k \in Blocks : k < r => c[k] = i
        BY <1>1, <1>2, <1>4, <2>3
    <2>6. c[0] = i
        BY <1>1, <1>3, <2>4, <2>5
    <2>7. r <= Size[i]
        BY <1>1, <1>6, <2>3
    <2>8. Spells(c, r) = i
        BY <2>3, <2>4, <2>5, <2>6, <2>7 DEF Spells
    <2> QED BY <2>4, <2>8 DEF r
<1> QED BY <1>9, <1>10

LEMMA IdleType == Idle \in OtaState /\ Idle.received <= Idle.total
BY DEF Idle, OtaState

LEMMA InitInv == Init => Inv
<1> SUFFICES ASSUME Init PROVE Inv
    OBVIOUS
<1>0. Spare \in Slots /\ Spare # First
    BY TwoSlots DEF Spare
<1>1. TypeOK
    <2>1. flash \in [Slots -> [Blocks -> Images \cup {None}]]
        BY DEF Init
    <2>2. origin \in [Slots -> Origins]
        BY DEF Init, Origins
    <2> QED BY <2>1, <2>2, IdleType DEF Init, TypeOK
<1>2. ~s.active /\ boot = First /\ running = First
    BY DEF Init, Idle
<1>3. Bookkeeping
    BY <1>2 DEF Init, Bookkeeping, HandlesMatch, CountsAgree, UploadContained
<1>4. Bootable(flash[First])
    <2>1. flash[First] = [k \in Blocks |-> IF k < Size[Factory] THEN Factory ELSE None]
        BY DEF Init
    <2>2. flash[First][0] = Factory
        BY <2>1, FirstBlock
    <2>3. Size[Factory] \in Nat \ {0}
        OBVIOUS
    <2>4. Spells(flash[First], Size[Factory]) = Factory
        BY <2>1, <2>2, <2>3 DEF Spells
    <2>5. Holds(flash[First]) = Factory
        BY <2>2, <2>4 DEF Holds
    <2> QED BY <2>5 DEF Bootable
<1>5. NeverBricked
    BY <1>2, <1>4 DEF NeverBricked
<1>6. BootChain
    BY <1>0, <1>2, <1>4 DEF BootChain, Init
<1> QED BY <1>1, <1>3, <1>5, <1>6 DEF Inv

-----------------------------------------------------------------------------

\* What an upload in progress and a live session imply, used in every case.
LEMMA Facts ==
    ASSUME Inv
    PROVE  /\ Ready => running \in Slots /\ NextUpdate \in Slots /\ NextUpdate # running
           /\ s.active => /\ s.part = Spare /\ s.h \in DOMAIN handles
                          /\ up /\ running = First
                          /\ hash \in Content
           /\ Ready => RollbackTargets \subseteq Slots
           /\ Ready /\ state[running] # "pending" => running = First /\ NextUpdate = Spare
           /\ Spare \in Slots /\ Spare # First /\ Other(Spare) = First
<1> USE DEF Inv, TypeOK
<1>0. Spare \in Slots /\ Spare # First /\ Other(Spare) = First
    BY TwoSlots DEF Spare
<1>1. ASSUME Ready PROVE running \in Slots /\ NextUpdate \in Slots /\ NextUpdate # running
    BY <1>1, TwoSlots DEF Ready, NextUpdate
<1>2. ASSUME s.active
      PROVE  /\ s.part = Spare /\ s.h \in DOMAIN handles /\ up
             /\ running = First /\ hash \in Content
    <2>1. s.h \in DOMAIN handles /\ handles[s.h].part = s.part /\ up /\ running # s.part
          /\ hash # None /\ running = First
        BY <1>2 DEF Bookkeeping, HandlesMatch, CountsAgree, UploadContained
    <2> QED BY <2>1, TwoSlots DEF Spare
<1>3. ASSUME Ready PROVE RollbackTargets \subseteq Slots
    BY <1>1, <1>3 DEF RollbackTargets, GivenUp
<1>4. ASSUME Ready, state[running] # "pending"
      PROVE  running = First /\ NextUpdate = Spare
    <2>1. running # Spare
        BY <1>4 DEF BootChain
    <2>2. running = First
        BY <1>1, <1>4, <2>1, TwoSlots DEF Spare
    <2> QED BY <2>2 DEF NextUpdate, Spare
<1> QED BY <1>0, <1>1, <1>2, <1>3, <1>4

LEMMA AbortFacts ==
    ASSUME Inv, AbortUpload
    PROVE  /\ s' = IF s.active THEN Idle ELSE s
           /\ ~s'.active /\ hash' = None /\ DOMAIN handles' = {}
<1>1. HandlesMatch
    BY DEF Inv, Bookkeeping
<1>2. CASE s.active
    <2>1. s.h # 0 /\ DOMAIN handles = {s.h}
        BY <1>1, <1>2 DEF HandlesMatch, Inv, TypeOK
    <2>2. handles' = Without(s.h)
        BY <1>2, <2>1 DEF AbortUpload
    <2> QED BY <1>2, <2>1, <2>2 DEF AbortUpload, Without, Idle
<1>3. CASE ~s.active
    BY <1>1, <1>3 DEF AbortUpload, HandlesMatch
<1> QED BY <1>2, <1>3 DEF AbortUpload

\* BeginNoHash and Begin both drop an earlier upload's handle before they open
\* theirs.
LEMMA NoneLeft ==
    ASSUME Inv
    PROVE  (IF s.active /\ s.h # 0 THEN Without(s.h) ELSE handles) = [h \in {} |-> None]
<1>1. HandlesMatch /\ handles \in [DOMAIN handles -> [part : Slots, at : Nat]]
    BY DEF Inv, Bookkeeping, TypeOK
<1>2. CASE s.active
    <2>1. s.h # 0 /\ DOMAIN handles \ {s.h} = {}
        BY <1>1, <1>2 DEF HandlesMatch, Inv, TypeOK
    <2> QED BY <1>2, <2>1 DEF Without
<1>3. CASE ~s.active
    BY <1>1, <1>3 DEF HandlesMatch
<1> QED BY <1>2, <1>3

-----------------------------------------------------------------------------
(* Type correctness.                                                       *)

LEMMA TypeStep ==
    ASSUME Inv, [Next]_vars
    PROVE  TypeOK'
<1> DEFINE S == s' \in OtaState /\ (s'.received <= s'.total)
           H == hash' \in Content \cup {None}
           G == /\ nexth' \in Nat /\ DOMAIN handles' \subseteq 1..nexth'
                /\ handles' \in [DOMAIN handles' -> [part : Slots, at : Nat]]
           F == flash' \in [Slots -> [Blocks -> Images \cup {None}]]
           O == boot' \in Slots /\ state' \in [Slots -> {"undefined", "new", "pending", "aborted"}]
           D == /\ running' \in Slots \cup {None} /\ boots' \in Nat
                /\ up' \in BOOLEAN /\ timer' \in BOOLEAN
           T == chosen' \in Slots /\ origin' \in [Slots -> Origins]
<1>0. TypeOK
    BY DEF Inv
<1>q. ASSUME S, H, G, F, O, D, T PROVE TypeOK'
    BY <1>q DEF TypeOK
<1>a. ASSUME AbortUpload, UNCHANGED nexth PROVE S /\ H /\ G
    <2>1. S
        BY <1>a, <1>0, AbortFacts, IdleType DEF TypeOK
    <2>2. H
        BY <1>a, AbortFacts
    <2>3. handles' \in [DOMAIN handles' -> [part : Slots, at : Nat]]
        BY <1>a, <1>0 DEF AbortUpload, Without, TypeOK
    <2>4. G
        BY <1>a, <1>0, AbortFacts, <2>3 DEF TypeOK
    <2> QED BY <2>1, <2>2, <2>4
<1> HIDE DEF S, H, G, F, O, D, T
<1>k. /\ UNCHANGED s => S
      /\ UNCHANGED hash => H
      /\ UNCHANGED idf => G
      /\ UNCHANGED flash => F
      /\ UNCHANGED otadata => O
      /\ UNCHANGED device => D
      /\ UNCHANGED ghosts => T
    <2> USE <1>0 DEF TypeOK
    <2>1. UNCHANGED s => S
        BY DEF S
    <2>2. UNCHANGED hash => H
        BY DEF H
    <2>3. UNCHANGED idf => G
        BY DEF G
    <2>4. UNCHANGED flash => F
        BY DEF F
    <2>5. UNCHANGED otadata => O
        BY DEF O
    <2>6. UNCHANGED device => D
        BY DEF D
    <2>7. UNCHANGED ghosts => T
        BY DEF T
    <2> QED BY <2>1, <2>2, <2>3, <2>4, <2>5, <2>6, <2>7
<1>r. ASSUME NEW p \in Slots, UNCHANGED chosen, origin' = Reopened(p) PROVE T
    <2>1. (IF state[p] = "new" THEN "over" ELSE "open") \in Origins
        BY DEF Origins
    <2> QED BY <1>r, <1>0, <2>1 DEF T, TypeOK, Reopened
<1>f. ASSUME NEW p \in Slots, NEW c \in Slot, flash' = [flash EXCEPT ![p] = c] PROVE F
    BY <1>f, <1>0 DEF F, TypeOK, Slot
<1>g. \A p \in Slots : flash[p] \in Slot
    BY <1>0 DEF TypeOK, Slot
<1>e. ASSUME NEW size \in Totals, NEW sha \in Images \cup {None}, Ready,
             nexth' = nexth + 1,
             flash' = [flash EXCEPT ![NextUpdate] = Erase(@, EraseSize(size))],
             origin' = Reopened(NextUpdate), UNCHANGED chosen
      PROVE  F /\ T /\ nexth' \in Nat /\ nexth + 1 \in Nat
    <2>0. NextUpdate \in Slots
        BY <1>e, Facts
    <2>1. F
        BY <1>e, <1>f, <1>g, <2>0, SlotTypes
    <2>2. T
        BY <1>e, <1>r, <2>0
    <2>3. nexth' \in Nat /\ nexth + 1 \in Nat
        BY <1>e, <1>0 DEF TypeOK
    <2> QED BY <2>1, <2>2, <2>3
<1>1. ASSUME NEW size \in Totals, NEW sha \in Images \cup {None}, Begin(size, sha)
      PROVE  TypeOK'
    <2>1. F /\ T /\ nexth' \in Nat /\ nexth + 1 \in Nat
        BY <1>1, <1>e DEF Begin
    <2>2. S
        BY <1>1, <2>1, Facts DEF Begin, S, OtaState
    <2>3. H
        BY <1>1, NoBytesContent DEF Begin, H
    <2>4. G
        <3>1. handles' = [g \in {nexth + 1} |-> [part |-> NextUpdate, at |-> 0]]
            <4>1. DOMAIN [h \in {} |-> None] = {}
                OBVIOUS
            <4> QED BY <1>1, NoneLeft, <4>1 DEF Begin
        <3>2. nexth' = nexth + 1 /\ NextUpdate \in Slots
            BY <1>1, Facts DEF Begin
        <3>3. DOMAIN handles' = {nexth + 1} /\ handles' \in [{nexth + 1} -> [part : Slots, at : Nat]]
            BY <3>1, <3>2
        <3>4. nexth \in Nat
            BY <1>0 DEF TypeOK
        <3> QED BY <2>1, <3>2, <3>3, <3>4 DEF G
    <2>5. UNCHANGED <<otadata, device>>
        BY <1>1 DEF Begin
    <2> QED BY <1>q, <1>k, <2>1, <2>2, <2>3, <2>4, <2>5
<1>2. ASSUME NEW size \in Totals, NEW sha \in Images \cup {None}, BeginNoHash(size, sha)
      PROVE  TypeOK'
    <2>1. F /\ T /\ nexth' \in Nat /\ nexth + 1 \in Nat
        BY <1>2, <1>e DEF BeginNoHash
    <2>2. S
        BY <1>2, <2>1, Facts DEF BeginNoHash, S, OtaState
    <2>3. H
        BY <1>2 DEF BeginNoHash, H
    <2>4. G
        BY <1>2, <2>1, NoneLeft DEF BeginNoHash, G
    <2>5. UNCHANGED <<otadata, device>>
        BY <1>2 DEF BeginNoHash
    <2> QED BY <1>q, <1>k, <2>1, <2>2, <2>3, <2>4, <2>5
<1>3. ASSUME NEW n \in 0..Cap, BeginRefused(n) PROVE TypeOK'
    <2>1. S
        <3>1. (IF s.active THEN Idle ELSE s) \in OtaState
            BY <1>0, IdleType DEF TypeOK
        <3>2. (IF s.active THEN Idle.received <= Idle.total ELSE s.received <= s.total)
            BY <1>0, IdleType DEF TypeOK
        <3> QED BY <1>3, <3>1, <3>2, Facts DEF BeginRefused, S, OtaState
    <2>2. H
        BY <1>3, <1>0 DEF BeginRefused, H, TypeOK
    <2>3. G
        BY <1>3, <1>0, NoneLeft DEF BeginRefused, G, TypeOK
    <2>4. UNCHANGED <<otadata, device, chosen>>
        BY <1>3 DEF BeginRefused
    <2>5. F /\ T
        <3>1. CASE UNCHANGED <<flash, origin>>
            BY <1>k, <2>4, <3>1
        <3>2. CASE ~UNCHANGED <<flash, origin>>
            <4>1. /\ flash' = [flash EXCEPT ![NextUpdate] = Erase(@, n)]
                  /\ origin' = Reopened(NextUpdate) /\ NextUpdate \in Slots
                BY <1>3, <3>2, Facts DEF BeginRefused
            <4>2. F
                BY <1>f, <1>g, <4>1, SlotTypes
            <4> QED BY <1>r, <2>4, <4>1, <4>2
        <3> QED BY <3>1, <3>2
    <2> QED BY <1>q, <1>k, <2>1, <2>2, <2>3, <2>4, <2>5
<1>x. ASSUME NEW i, NEW m, s.active,
             Written(i, m)
      PROVE  F
    <2>1. s.part \in Slots
        BY <1>x, Facts
    <2> QED BY <1>x, <1>f, <1>g, <2>1, SlotTypes DEF Written
<1>4. ASSUME NEW i \in Images \cup {None}, NEW n \in Chunks, Data(i, n)
      PROVE  TypeOK'
    <2>1. F
        BY <1>4, <1>x DEF Data
    <2>2. H
        BY <1>4, Facts, ExtendContent DEF Data, H
    <2>3. S
        <3>1. n \in Nat /\ s.received + n \in Nat
            BY <1>0 DEF TypeOK, OtaState
        <3>2. s' \in OtaState
            <4>1. s \in OtaState /\ s' = [s EXCEPT !.received = s.received + n]
                BY <1>4, <1>0 DEF Data, TypeOK
            <4> QED BY <4>1, <3>1 DEF OtaState
        <3>3. s'.received = s.received + n /\ s'.total = s.total
            BY <1>4, <1>0 DEF Data, TypeOK, OtaState
        <3> QED BY <1>4, <3>2, <3>3 DEF Data, Fits, S
    <2>4. UNCHANGED <<nexth, otadata, device, ghosts>>
        BY <1>4 DEF Data
    <2>5. G
        <3>1. s.h \in DOMAIN handles /\ handles \in [DOMAIN handles -> [part : Slots, at : Nat]]
              /\ n \in Nat
            BY <1>4, <1>0, Facts DEF Data, TypeOK
        <3>2. handles' = [handles EXCEPT ![s.h] = [handles[s.h] EXCEPT !.at = @ + n]]
            BY <1>4 DEF Data
        <3>3. [handles[s.h] EXCEPT !.at = @ + n] \in [part : Slots, at : Nat]
            BY <3>1
        <3>4. DOMAIN handles' = DOMAIN handles /\ handles' \in [DOMAIN handles -> [part : Slots, at : Nat]]
            BY <3>1, <3>2, <3>3
        <3> QED BY <1>0, <2>4, <3>4 DEF G, TypeOK
    <2> QED BY <1>q, <1>k, <2>1, <2>2, <2>3, <2>4, <2>5
<1>5. ASSUME NEW i \in Images \cup {None}, NEW n \in Chunks, DataFails(i, n)
      PROVE  TypeOK'
    <2>1. F
        BY <1>5, <1>x DEF DataFails
    <2>2. AbortUpload /\ UNCHANGED <<nexth, otadata, device, ghosts>>
        BY <1>5 DEF DataFails
    <2> QED BY <1>q, <1>k, <1>a, <2>1, <2>2
<1>6. ASSUME End PROVE TypeOK'
    <2>0. s.active /\ s.part \in Slots /\ s.h \in DOMAIN handles
        BY <1>6, Facts DEF End
    <2>1. S /\ H
        BY <1>6, IdleType DEF End, S, H
    <2>2. G
        BY <1>6, <1>0 DEF End, G, Without, TypeOK
    <2>3. O
        BY <1>6, <1>0, <2>0 DEF End, SetBoot, O, TypeOK
    <2>4. D
        BY <1>6, <1>0 DEF End, ArmRestart, D, TypeOK
    <2>5. T
        <3>1. Vouched \in Origins
            BY <1>0, <2>0 DEF Vouched, Origins, TypeOK
        <3> QED BY <1>6, <1>0, <2>0, <3>1 DEF End, T, TypeOK
    <2>6. UNCHANGED flash
        BY <1>6 DEF End
    <2> QED BY <1>q, <1>k, <2>1, <2>2, <2>3, <2>4, <2>5, <2>6
<1>7. ASSUME EndFails PROVE TypeOK'
    <2>1. S /\ H
        BY <1>7, IdleType DEF EndFails, S, H
    <2>2. G
        BY <1>7, <1>0 DEF EndFails, G, Without, TypeOK
    <2>3. UNCHANGED <<flash, otadata, device, ghosts>>
        BY <1>7 DEF EndFails
    <2> QED BY <1>q, <1>k, <2>1, <2>2, <2>3
<1>8. ASSUME Abort PROVE TypeOK'
    BY <1>8, <1>q, <1>k, <1>a DEF Abort
<1>9. ASSUME Rollback PROVE TypeOK'
    <2>0. PICK p \in RollbackTargets :
              SetBoot(p) /\ chosen' = p
              /\ origin' = [origin EXCEPT ![p] = IF @ = "open" THEN "rolled" ELSE @]
        BY <1>9 DEF Rollback
    <2>p. p \in Slots
        BY <1>9, Facts DEF Rollback
    <2>1. O
        BY <1>0, <2>0, <2>p DEF SetBoot, O, TypeOK
    <2>2. T
        <3>1. (IF origin[p] = "open" THEN "rolled" ELSE origin[p]) \in Origins
            BY <1>0, <2>p DEF TypeOK, Origins
        <3> QED BY <1>0, <2>0, <2>p, <3>1 DEF T, TypeOK
    <2>3. UNCHANGED <<s, hash, idf, flash, device>>
        BY <1>9 DEF Rollback
    <2> QED BY <1>q, <1>k, <2>1, <2>2, <2>3
<1>10. ASSUME Connect PROVE TypeOK'
    <2>1. D
        BY <1>10, <1>0 DEF Connect, D, TypeOK
    <2>2. UNCHANGED <<s, hash, idf, flash, otadata, ghosts>>
        BY <1>10 DEF Connect
    <2> QED BY <1>q, <1>k, <2>1, <2>2
<1>11. ASSUME Disconnect PROVE TypeOK'
    <2>1. D
        BY <1>11, <1>0 DEF Disconnect, D, TypeOK
    <2>2. AbortUpload /\ UNCHANGED <<nexth, flash, otadata, ghosts>>
        BY <1>11 DEF Disconnect
    <2> QED BY <1>q, <1>k, <1>a, <2>1, <2>2
<1>12. ASSUME GoDown PROVE TypeOK'
    <2>1. S /\ H
        BY <1>12, IdleType DEF GoDown, S, H
    <2>2. D
        BY <1>12, <1>0 DEF GoDown, D, TypeOK
    <2>3. G
        BY <1>12, <1>0 DEF GoDown, G, TypeOK
    <2>4. UNCHANGED <<flash, otadata, ghosts>>
        BY <1>12 DEF GoDown
    <2> QED BY <1>q, <1>k, <2>1, <2>2, <2>3, <2>4
<1>13. ASSUME Boot PROVE TypeOK'
    <2>1. O
        BY <1>13, <1>0 DEF Boot, O, TypeOK
    <2>2. D
        <3>1. \A q \in Slots : Other(q) \in Slots
            BY TwoSlots
        <3>2. boot \in Slots /\ First \in Slots
            BY <1>0, OtaAssumption DEF TypeOK
        <3>3. running' \in Slots
            BY <1>13, <3>1, <3>2, Zenon DEF Boot
        <3>4. boots' \in Nat
            BY <1>13, <1>0 DEF Boot, TypeOK
        <3>5. up' \in BOOLEAN /\ timer' \in BOOLEAN
            <4>1. up' = up /\ timer' = timer
                BY <1>13 DEF Boot
            <4> QED BY <1>0, <4>1, Zenon DEF TypeOK
        <3> QED BY <3>3, <3>4, <3>5 DEF D
    <2>3. UNCHANGED <<s, hash, idf, flash, ghosts>>
        BY <1>13 DEF Boot
    <2> QED BY <1>q, <1>k, <2>1, <2>2, <2>3
<1>14. CASE UNCHANGED vars
    BY <1>14, <1>q, <1>k DEF vars
<1> QED BY <1>1, <1>2, <1>3, <1>4, <1>5, <1>6, <1>7, <1>8, <1>9, <1>10, <1>11,
           <1>12, <1>13, <1>14 DEF Next, Command, Restart, Crash
-----------------------------------------------------------------------------
(* The upload's record, the IDF's handle, the hash and the flash agree.    *)

LEMMA BookStep ==
    ASSUME Inv, [Next]_vars
    PROVE  Bookkeeping'
<1>0. TypeOK /\ Bookkeeping
    BY DEF Inv
<1>1. ASSUME ~s'.active, hash' = None, DOMAIN handles' = {}, up' => running' # None
      PROVE  Bookkeeping'
    BY <1>1 DEF Bookkeeping, HandlesMatch, CountsAgree, UploadContained
<1>2. ASSUME UNCHANGED <<s, hash, handles, flash, running, up>>
      PROVE  Bookkeeping'
    BY <1>0, <1>2 DEF Bookkeeping, HandlesMatch, CountsAgree, UploadContained
<1>3. ASSUME s.active
      PROVE  DOMAIN Without(s.h) = {}
    BY <1>0, <1>3 DEF Bookkeeping, HandlesMatch, Without
<1>4. ASSUME NEW size \in Totals, NEW sha \in Images \cup {None}, Begin(size, sha)
      PROVE  Bookkeeping'
    <2>1. handles' = [g \in {nexth + 1} |-> [part |-> NextUpdate, at |-> 0]]
        <3>1. DOMAIN [h \in {} |-> None] = {}
            OBVIOUS
        <3> QED BY <1>4, NoneLeft, <3>1 DEF Begin
    <2>2. /\ s'.active /\ s'.h = nexth + 1 /\ s'.part = NextUpdate /\ s'.received = 0
          /\ hash' = NoBytes /\ UNCHANGED <<running, up>>
          /\ Ready /\ state[running] # "pending"
        BY <1>4 DEF Begin, BeginAllowed
    <2>3. NextUpdate \in Slots /\ NextUpdate # running /\ up /\ running = First
        BY <2>2, Facts DEF Ready
    <2>4. HandlesMatch'
        <3>1. NoBytes # None
            BY NoBytesContent
        <3> QED BY <2>1, <2>2, <3>1 DEF HandlesMatch
    <2>5. CountsAgree'
        <3>1. \A c : Spells(c, 0) = None
            BY DEF Spells
        <3> QED BY <2>1, <2>2, <3>1 DEF CountsAgree, NoBytes
    <2>6. UploadContained'
        BY <2>2, <2>3 DEF UploadContained
    <2> QED BY <2>2, <2>3, <2>4, <2>5, <2>6 DEF Bookkeeping
<1>5. ASSUME NEW size \in Totals, NEW sha \in Images \cup {None}, BeginNoHash(size, sha)
      PROVE  Bookkeeping'
    BY <1>1, <1>5, NoneLeft DEF BeginNoHash, Ready
<1>6. ASSUME NEW n \in 0..Cap, BeginRefused(n) PROVE Bookkeeping'
    <2>1. ~s'.active
        <3>1. (IF s.active THEN Idle ELSE s) \in OtaState
            BY <1>0, IdleType DEF TypeOK
        <3>2. ~(IF s.active THEN Idle ELSE s).active
            BY DEF Idle
        <3> QED BY <1>6, <3>1, <3>2 DEF BeginRefused, OtaState
    <2>2. hash' = None
        BY <1>6, <1>0 DEF BeginRefused, Bookkeeping, HandlesMatch
    <2> QED BY <1>1, <1>6, <2>1, <2>2, NoneLeft DEF BeginRefused, Ready
<1>7. ASSUME NEW i \in Images \cup {None}, NEW n \in Chunks, Data(i, n)
      PROVE  Bookkeeping'
    <2>0. /\ s \in OtaState /\ hash \in Content /\ s.active /\ s.part \in Slots
          /\ flash \in [Slots -> [Blocks -> Images \cup {None}]]
          /\ hash.img = Spells(flash[s.part], s.received) /\ hash.len = s.received
          /\ handles[s.h] = [part |-> s.part, at |-> s.received] /\ s.h \in DOMAIN handles
        BY <1>7, <1>0, Facts DEF Data, TypeOK, Bookkeeping, CountsAgree
    <2>1. /\ s'.active /\ s'.part = s.part /\ s'.h = s.h
          /\ s'.received = s.received + n
        BY <1>7, <2>0 DEF Data, OtaState
    <2>2. /\ hash' = Extend(hash, i, n)
          /\ flash'[s.part] = Write(flash[s.part], hash.len, i, n)
        BY <1>7, <2>0 DEF Data, Written
    <2>3. hash' \in Content /\ hash'.len = hash.len + n
        BY <2>0, <2>2, ExtendContent
    <2>4. HandlesMatch'
        <3>1. DOMAIN handles' = DOMAIN handles
            BY <1>7 DEF Data
        <3> QED BY <1>0, <1>7, <2>0, <2>1, <2>3, <3>1 DEF Data, Bookkeeping, HandlesMatch
    <2>5. CountsAgree'
        <3>1. flash[s.part] \in Slot /\ hash.len + n <= Cap
            BY <1>7, <2>0 DEF Slot, Data, Writable
        <3>2. hash'.img = Spells(flash'[s.part], hash.len + n)
            BY <2>0, <2>2, <3>1, SpellsChunk
        <3>3. handles'[s.h] = [part |-> s.part, at |-> s.received + n]
            BY <1>7, <2>0 DEF Data
        <3> QED BY <2>0, <2>1, <2>3, <3>2, <3>3 DEF CountsAgree
    <2>6. UNCHANGED <<up, running>>
        BY <1>7 DEF Data
    <2> QED BY <1>0, <2>0, <2>1, <2>4, <2>5, <2>6 DEF Bookkeeping, UploadContained
<1>8. ASSUME AbortUpload, up' => running' # None
      PROVE  Bookkeeping'
    BY <1>1, <1>8, AbortFacts
<1>9. ASSUME NEW i \in Images \cup {None}, NEW n \in Chunks, DataFails(i, n)
      PROVE  Bookkeeping'
    BY <1>8, <1>9 DEF DataFails, Ready
<1>10. ASSUME End PROVE Bookkeeping'
    BY <1>1, <1>3, <1>10 DEF End, Ready, Idle
<1>11. ASSUME EndFails PROVE Bookkeeping'
    BY <1>1, <1>3, <1>11 DEF EndFails, Ready, Idle
<1>12. ASSUME Abort PROVE Bookkeeping'
    BY <1>8, <1>12 DEF Abort, Ready
<1>13. ASSUME Rollback PROVE Bookkeeping'
    BY <1>2, <1>13 DEF Rollback
<1>14. ASSUME Connect PROVE Bookkeeping'
    BY <1>0, <1>14 DEF Connect, Bookkeeping, HandlesMatch, CountsAgree, UploadContained
<1>15. ASSUME Disconnect PROVE Bookkeeping'
    BY <1>8, <1>15 DEF Disconnect
<1>16. ASSUME GoDown PROVE Bookkeeping'
    BY <1>1, <1>16 DEF GoDown, Idle
<1>17. ASSUME Boot PROVE Bookkeeping'
    <2>1. ~s.active /\ ~up
        BY <1>0, <1>17, Facts DEF Boot, Bookkeeping
    <2> QED BY <1>0, <1>1, <1>17, <2>1 DEF Boot, Bookkeeping, HandlesMatch
<1>18. CASE UNCHANGED vars
    BY <1>2, <1>18 DEF vars
<1> QED BY <1>4, <1>5, <1>6, <1>7, <1>9, <1>10, <1>11, <1>12, <1>13, <1>14, <1>15,
           <1>16, <1>17, <1>18 DEF Next, Command, Restart, Crash

-----------------------------------------------------------------------------
(* There is always an image to boot.                                       *)

LEMMA BrickStep ==
    ASSUME Inv, [Next]_vars
    PROVE  NeverBricked'
<1>0. TypeOK /\ NeverBricked
    BY DEF Inv
<1>1. ASSUME UNCHANGED <<flash, running>> PROVE NeverBricked'
    BY <1>0, <1>1 DEF NeverBricked
<1>2. ASSUME NEW p \in Slots, NEW c, flash' = [flash EXCEPT ![p] = c],
             Ready, p # running, UNCHANGED running
      PROVE  NeverBricked'
    <2>1. running \in Slots /\ Bootable(flash[running])
        BY <1>0, <1>2, Facts DEF NeverBricked, Ready
    <2>2. flash'[running] = flash[running]
        BY <1>0, <1>2, <2>1 DEF TypeOK
    <2> QED BY <1>2, <2>1, <2>2 DEF NeverBricked
<1>3. ASSUME NEW size \in Totals, NEW sha \in Images \cup {None},
             Begin(size, sha) \/ BeginNoHash(size, sha)
      PROVE  NeverBricked'
    BY <1>2, <1>3, Facts DEF Begin, BeginNoHash
<1>4. ASSUME NEW i \in Images \cup {None}, NEW n \in Chunks, Data(i, n) \/ DataFails(i, n)
      PROVE  NeverBricked'
    <2>1. s.part \in Slots /\ s.part # running
        BY <1>4, Facts, TwoSlots DEF Data, DataFails
    <2> QED BY <1>1, <1>2, <1>4, <2>1 DEF Data, DataFails, Written
<1>5. ASSUME NEW n \in 0..Cap, BeginRefused(n)
      PROVE  NeverBricked'
    <2>1. UNCHANGED running /\ Ready
        BY <1>5 DEF BeginRefused
    <2>2. flash' = flash \/ flash' = [flash EXCEPT ![NextUpdate] = Erase(@, n)]
        BY <1>5 DEF BeginRefused
    <2> QED BY <1>1, <1>2, <2>1, <2>2, Facts
<1>8. ASSUME End \/ EndFails \/ Abort \/ Rollback \/ Connect \/ Disconnect
             \/ UNCHANGED vars
      PROVE  NeverBricked'
    BY <1>1, <1>8 DEF End, EndFails, Abort, Rollback, Connect, Disconnect, vars
<1>6. ASSUME GoDown PROVE NeverBricked'
    BY <1>0, <1>6 DEF GoDown, NeverBricked
<1>7. ASSUME Boot PROVE NeverBricked'
    <2>1. running' \in Slots /\ Bootable(flash'[running'])
        BY <1>0, <1>7, TwoSlots DEF Boot, TypeOK
    <2> QED BY <2>1 DEF NeverBricked
<1> QED BY <1>3, <1>4, <1>5, <1>6, <1>7, <1>8 DEF Next, Command, Restart, Crash

-----------------------------------------------------------------------------
(* What the boot loader may try was committed.                             *)

LEMMA ChainStep ==
    ASSUME Inv, [Next]_vars
    PROVE  BootChain'
<1>0. TypeOK /\ BootChain
    BY DEF Inv
<1>s. Spare \in Slots /\ Spare # First /\ Other(Spare) = First /\ First # None
    BY Facts
<1>1. ASSUME UNCHANGED <<otadata, origin>>, running' = running \/ running' = None,
             flash'[First] = flash[First]
      PROVE  BootChain'
    BY <1>0, <1>1, <1>s DEF BootChain
\* An upload begins, whatever comes of it.
<1>2. ASSUME Ready, state[running] # "pending", NEW c,
             flash' = [flash EXCEPT ![NextUpdate] = c], origin' = Reopened(NextUpdate),
             UNCHANGED <<otadata, running>>
      PROVE  BootChain'
    <2>1. running = First /\ NextUpdate = Spare
        BY <1>2, Facts
    <2>2. flash'[First] = flash[First] /\ origin'[First] = origin[First]
        BY <1>0, <1>2, <1>s, <2>1 DEF TypeOK, Reopened
    <2>3. origin'[Spare] = IF state[Spare] = "new" THEN "over" ELSE "open"
        BY <1>0, <1>2, <1>s, <2>1 DEF TypeOK, Reopened
    <2> QED BY <1>0, <1>2, <1>s, <2>1, <2>2, <2>3 DEF BootChain
<1>3. ASSUME NEW size \in Totals, NEW sha \in Images \cup {None},
             Begin(size, sha) \/ BeginNoHash(size, sha)
      PROVE  BootChain'
    BY <1>2, <1>3 DEF Begin, BeginNoHash, BeginAllowed
<1>4. ASSUME NEW n \in 0..Cap, BeginRefused(n) PROVE BootChain'
    BY <1>1, <1>2, <1>4 DEF BeginRefused
<1>5. ASSUME NEW i \in Images \cup {None}, NEW n \in Chunks, Data(i, n) \/ DataFails(i, n)
      PROVE  BootChain'
    <2>1. s.part = Spare /\ UNCHANGED <<otadata, origin, running>>
        BY <1>5, Facts DEF Data, DataFails
    <2>2. flash'[First] = flash[First]
        BY <1>0, <1>5, <1>s, <2>1 DEF Data, DataFails, Written, TypeOK
    <2> QED BY <1>1, <2>1, <2>2
<1>6. ASSUME EndFails \/ Abort \/ Connect \/ Disconnect \/ GoDown \/ UNCHANGED vars
      PROVE  BootChain'
    BY <1>1, <1>6 DEF EndFails, Abort, Connect, Disconnect, GoDown, vars
<1>7. ASSUME End PROVE BootChain'
    <2>1. s.part = Spare /\ running = First
        BY <1>7, Facts DEF End
    <2>2. /\ state' = [state EXCEPT ![Spare] = "new"]
          /\ origin' = [origin EXCEPT ![Spare] = Vouched]
          /\ UNCHANGED <<flash, running>> /\ hash.img = s.expected
        BY <1>7, <2>1 DEF End, SetBoot, Verified
    <2>3. Vouched # "open"
        BY <2>2 DEF Vouched
    <2>4. /\ state'[Spare] = "new" /\ origin'[Spare] = Vouched
          /\ origin'[First] = origin[First]
        BY <1>0, <1>s, <2>2 DEF TypeOK
    <2> QED BY <1>0, <1>s, <2>1, <2>2, <2>3, <2>4 DEF BootChain
<1>8. ASSUME Rollback PROVE BootChain'
    <2>0. PICK p \in RollbackTargets :
              SetBoot(p) /\ origin' = [origin EXCEPT ![p] = IF @ = "open" THEN "rolled" ELSE @]
        BY <1>8 DEF Rollback
    <2>1. p \in Slots /\ (p = First \/ p = Spare) /\ running \in Slots
          /\ UNCHANGED <<flash, running>>
        BY <1>8, Facts, TwoSlots DEF Rollback, Spare
    <2>2. boot' = p /\ state' = [state EXCEPT ![p] = "new"]
        BY <2>0 DEF SetBoot
    <2>3. state[First] = "aborted" => state[Spare] # "undefined"
        BY <1>0 DEF BootChain
    <2>4. CASE p = First
        <3>1. state[Spare] # "undefined"
            <4>1. CASE GivenUp # {}
                BY <2>0, <2>3, <2>4, <4>1 DEF RollbackTargets, GivenUp
            <4>2. CASE GivenUp = {}
                <5>1. NextUpdate = First
                    BY <2>4, <4>2 DEF RollbackTargets
                <5>2. running = Spare
                    BY <1>8, <1>s, <2>1, <5>1, Facts, TwoSlots DEF Rollback
                <5> QED BY <1>0, <5>2 DEF BootChain
            <4> QED BY <4>1, <4>2
        <3>2. /\ state'[Spare] = state[Spare] /\ origin'[Spare] = origin[Spare]
              /\ origin'[First] = "usb"
            BY <1>0, <1>s, <2>0, <2>2, <2>4 DEF TypeOK, BootChain
        <3> QED BY <1>0, <2>1, <3>1, <3>2 DEF BootChain
    <2>5. CASE p = Spare
        <3>1. running # Spare
            <4>1. CASE GivenUp # {}
                BY <1>0, <2>5, <4>1 DEF RollbackTargets, GivenUp, BootChain
            <4>2. CASE GivenUp = {}
                BY <1>8, <2>5, <4>2, Facts DEF RollbackTargets, Rollback
            <4> QED BY <4>1, <4>2
        <3>2. /\ state'[Spare] = "new" /\ origin'[First] = origin[First]
              /\ origin'[Spare] # "open"
            BY <1>0, <1>s, <2>0, <2>2, <2>5 DEF TypeOK
        <3> QED BY <1>0, <1>s, <2>1, <3>1, <3>2 DEF BootChain
    <2> QED BY <2>1, <2>4, <2>5
<1>9. ASSUME Boot PROVE BootChain'
    <2> DEFINE given == [q \in Slots |-> IF state[q] = "pending" THEN "aborted" ELSE state[q]]
               tried == IF given[boot] # "aborted" THEN boot
                        ELSE IF given[Other(boot)] # "aborted" THEN Other(boot) ELSE First
               p == IF Bootable(flash[tried]) THEN tried ELSE Other(tried)
    <2>1. /\ running' = p
          /\ state' = [given EXCEPT ![tried] = IF @ = "new" THEN "pending" ELSE @]
          /\ UNCHANGED <<flash, boot, origin>>
        BY <1>9 DEF Boot
    <2>2. boot \in Slots /\ (boot = First \/ boot = Spare) /\ Other(First) = Spare
        BY <1>0, TwoSlots DEF TypeOK, Spare
    <2>3. \A q \in Slots : given[q] = IF state[q] = "pending" THEN "aborted" ELSE state[q]
        OBVIOUS
    <2>4. tried = First \/ (tried = Spare /\ given[Spare] # "aborted")
        BY <1>s, <2>2
    <2>5. tried \in Slots
        BY <1>s, <2>4
    <2>6. \A q \in Slots : state'[q] = IF q = tried /\ given[q] = "new" THEN "pending"
                                       ELSE given[q]
        BY <2>1, <2>5
    <2>7. tried = Spare => boot = Spare \/ given[First] = "aborted"
        BY <1>s, <2>2
    <2> HIDE DEF given, tried
    <2>8. tried = Spare => given[Spare] = "new"
        <3> SUFFICES ASSUME tried = Spare PROVE given[Spare] = "new"
            OBVIOUS
        <3>1. state[Spare] \in {"undefined", "new", "pending", "aborted"}
            BY <1>0, <1>s DEF TypeOK
        <3>2. state[Spare] \in {"undefined", "new"} /\ given[Spare] = state[Spare]
            BY <1>s, <2>3, <2>4, <3>1
        <3>3. state[Spare] # "undefined"
            BY <1>0, <1>s, <2>3, <2>7 DEF BootChain
        <3> QED BY <3>2, <3>3
    <2>9. p = Spare => tried = Spare
        BY <1>0, <1>s, <2>4 DEF BootChain
    <2>10. p = Spare => state'[Spare] = "pending" /\ origin[Spare] # "open"
        <3>1. given[Spare] = "new" => state[Spare] = "new"
            BY <1>s, <2>3
        <3> QED BY <1>0, <1>s, <2>6, <2>8, <2>9, <3>1 DEF BootChain
    <2>11. state'[Spare] = "new" => state[Spare] = "new"
        BY <1>s, <2>3, <2>6
    <2>12. state'[Spare] = "undefined" => state[Spare] = "undefined"
        BY <1>s, <2>3, <2>6
    <2>13. state[First] = "undefined" => state'[First] = "undefined"
        BY <2>3, <2>6
    <2> HIDE DEF p
    <2> QED BY <1>0, <2>1, <2>10, <2>11, <2>12, <2>13 DEF BootChain
<1> QED BY <1>3, <1>4, <1>5, <1>6, <1>7, <1>8, <1>9 DEF Next, Command, Restart, Crash

-----------------------------------------------------------------------------
(* Theorems.                                                               *)

\* The invariant holds in every reachable state of ota.c and its boot loader.
THEOREM Invariance == Spec => []Inv
<1>1. Inv /\ [Next]_vars => Inv'
    BY TypeStep, BookStep, BrickStep, ChainStep DEF Inv
<1> QED BY InitInv, <1>1, PTL DEF Spec

\* Types of ota_state_t and of the boot state, received within total (ota.c 82).
THEOREM TypeCorrect == Spec => []TypeOK
BY Invariance, PTL DEF Inv

\* No update handle or hash operation leaks or is closed twice, on any path
\* (ota.c 62, 71, 84-88, 98-116).
THEOREM NoHandleLeaks == Spec => []HandlesMatch
BY Invariance, PTL DEF Inv, Bookkeeping

\* The bytes counted, hashed and written agree until the upload ends
\* (ota.c 83-91).
THEOREM CountsAreExact == Spec => []CountsAgree
BY Invariance, PTL DEF Inv, Bookkeeping

\* An upload stays off the running slot and ends with its session
\* (ota.c 63, net.c 426).
THEOREM UploadIsContained == Spec => []UploadContained
BY Invariance, PTL DEF Inv, Bookkeeping

\* In every update, the device runs only what USB or a committed upload put
\* there; OTA_ROLLBACK, an upload over a slot committed and not yet booted, and
\* remains behind a shorter upload are the ways round it (ota.c 98-113).
THEOREM RunsVerifiedOnly == Spec => []RunsVerified
<1>1. Inv => RunsVerified
    <2> SUFFICES ASSUME Inv, running # None PROVE origin[running] # "open"
        BY DEF RunsVerified
    <2>1. running = First \/ running = Spare
        BY TwoSlots DEF Inv, TypeOK, Spare
    <2> QED BY <2>1 DEF Inv, BootChain
<1> QED BY Invariance, <1>1, PTL

\* At every point a power failure leaves the boot loader an image to boot
\* (ota.c 63, 113).
THEOREM AlwaysBootable == Spec => []NeverBricked
BY Invariance, PTL DEF Inv

=============================================================================
