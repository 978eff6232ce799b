-------------------------- MODULE ClientSessionProofs --------------------------
(***************************************************************************)
(* Proofs about RecentClients and ClientSession, for all clients, numbers  *)
(* of instances and lengths of the list.                                   *)
(***************************************************************************)
EXTENDS ClientSession, SequenceTheorems, TLAPS

Places == {"off", "choose", "promote", "save", "write", "move", "preview"}
Frames == {"closed", "events", "poll", "windows", "picker", "query", "shutdown"}
Contents == Lists \cup {None, Half}

RecentTypes ==
  /\ valid \subseteq Roots /\ settings \in Contents /\ temporary \in Contents
  /\ open \subseteq Instances /\ clash \in BOOLEAN
  /\ pc \in [Instances -> Places]
  /\ entries \in [Instances -> Lists] /\ client \in [Instances -> Roots \cup {None}]

SessionTypes ==
  /\ frame \in Frames /\ running \in BOOLEAN /\ blocked \in BOOLEAN /\ clicked \in BOOLEAN
  /\ requested \in Roots \cup {None}

(* Who has the temporary file open, and what a saver has to save.          *)
SaverInv ==
  \A i \in Instances :
    /\ i \in open <=> pc[i] = "write"
    /\ pc[i] \in {"promote", "save", "write", "move", "preview"} => client[i] \in Roots
    /\ pc[i] \in {"save", "write", "move"} => entries[i] # << >>

(* Without a clash one instance saves, and the temporary file is its own,  *)
(* unless one that gave up has removed it.                                 *)
AloneInv ==
  ~ clash =>
    /\ \A i, j \in Instances : Saving(i) /\ Saving(j) => i = j
    /\ \A i \in Instances :
         /\ pc[i] = "write" => temporary = << >>
         /\ pc[i] = "move" => temporary \in {entries[i], None}

RecentInv == RecentTypes /\ SaverInv /\ AloneInv /\ HistoryIsWhole

(* One click a frame: no request before it, and no job that the block has  *)
(* not seen.                                                               *)
FrameInv ==
  /\ frame # "closed" => pc[Me] = "preview"
  /\ frame = "closed" => requested = None
  /\ requested # None => clicked /\ frame \in {"windows", "query", "shutdown"}
  /\ frame = "windows" /\ ~ clicked /\ ~ blocked => active = {}
  /\ frame = "picker" => clicked /\ requested = None /\ active = {}

SessionInv == RecentInv /\ SessionTypes /\ FrameInv /\ SwitchEndsNoJob

-----------------------------------------------------------------------------
(* The list of recent clients.                                             *)

LEMMA ListsAre ==
  ASSUME NEW list
  PROVE  list \in Lists <=>
           list \in Seq(Roots) /\ Len(list) <= MaximumEntries /\ Distinct(list)
<1>a. MaximumEntries \in Nat
  BY RecentAssumption DEF RecentAssumption
<1>1. ASSUME list \in Lists
      PROVE  list \in Seq(Roots) /\ Len(list) <= MaximumEntries /\ Distinct(list)
  <2>1. PICK n \in 0 .. MaximumEntries : list \in [1 .. n -> Roots]
    BY <1>1 DEF Lists
  <2>2. n \in Nat /\ n <= MaximumEntries
    BY <1>a, <2>1
  <2>3. list \in Seq(Roots)
    BY <2>1, <2>2, SeqDef
  <2>4. Len(list) = n
    BY <2>1, <2>2, <2>3, LenProperties
  <2> QED BY <1>1, <2>2, <2>3, <2>4 DEF Lists
<1>2. ASSUME list \in Seq(Roots), Len(list) <= MaximumEntries, Distinct(list)
      PROVE  list \in Lists
  <2>1. Len(list) \in 0 .. MaximumEntries /\ list \in [1 .. Len(list) -> Roots]
    BY <1>a, <1>2, LenProperties
  <2> QED BY <1>2, <2>1 DEF Lists
<1> QED BY <1>1, <1>2

LEMMA NoEntries == << >> \in Lists
<1>1. << >> \in Seq(Roots) /\ Len(<< >>) = 0 /\ DOMAIN << >> = {}
  BY EmptySeq
<1>2. Distinct(<< >>)
  BY <1>1 DEF Distinct
<1>3. Len(<< >>) <= MaximumEntries
  BY <1>1, RecentAssumption DEF RecentAssumption
<1> DEFINE nothing == << >>
<1>4. nothing \in Seq(Roots) /\ Len(nothing) <= MaximumEntries /\ Distinct(nothing)
  BY <1>1, <1>2, <1>3
<1> HIDE DEF nothing
<1>5. nothing \in Lists
  BY <1>4, ListsAre
<1> QED BY <1>5 DEF nothing

(* The list without one entry.                                             *)
LEMMA RemovedOne ==
  ASSUME NEW list \in Seq(Roots), Distinct(list), NEW k \in 1 .. Len(list)
  PROVE  /\ RemoveAt(list, k) \in Seq(Roots) /\ Len(RemoveAt(list, k)) = Len(list) - 1
         /\ \A i \in 1 .. Len(list) - 1 :
              RemoveAt(list, k)[i] = IF i < k THEN list[i] ELSE list[i + 1]
<1> DEFINE before == SubSeq(list, 1, k - 1)
           after == SubSeq(list, k + 1, Len(list))
<1>a. Len(list) \in Nat /\ k \in Nat /\ k >= 1 /\ k <= Len(list)
  BY LenProperties
<1>b. \A i \in 1 .. Len(list) : list[i] \in Roots
  BY ElementOfSeq
<1>1. /\ before \in Seq(Roots) /\ Len(before) = k - 1
      /\ \A i \in 1 .. k - 1 : before[i] = list[i]
  <2>1. k - 1 \in Int /\ 1 \in Int /\ \A i \in 1 .. k - 1 : list[i] \in Roots
    BY <1>a, <1>b
  <2>2. /\ before \in Seq(Roots) /\ Len(before) = IF 1 <= k - 1 THEN (k - 1) - 1 + 1 ELSE 0
        /\ \A i \in 1 .. (k - 1) - 1 + 1 : before[i] = list[1 + i - 1]
    BY <2>1, SubSeqProperties
  <2> QED BY <1>a, <2>2
<1>2. /\ after \in Seq(Roots) /\ Len(after) = Len(list) - k
      /\ \A i \in 1 .. Len(list) - k : after[i] = list[k + i]
  <2>1. k + 1 \in Int /\ Len(list) \in Int /\ \A i \in k + 1 .. Len(list) : list[i] \in Roots
    BY <1>a, <1>b
  <2>2. /\ after \in Seq(Roots)
        /\ Len(after) = IF k + 1 <= Len(list) THEN Len(list) - (k + 1) + 1 ELSE 0
        /\ \A i \in 1 .. Len(list) - (k + 1) + 1 : after[i] = list[(k + 1) + i - 1]
    BY <2>1, SubSeqProperties
  <2> QED BY <1>a, <2>2
<1> HIDE DEF before, after
<1>3. /\ before \o after \in Seq(Roots) /\ Len(before \o after) = Len(before) + Len(after)
      /\ \A i \in 1 .. Len(before) + Len(after) :
           (before \o after)[i] = IF i <= Len(before) THEN before[i] ELSE after[i - Len(before)]
  BY <1>1, <1>2, ConcatProperties
<1>4. RemoveAt(list, k) = before \o after
  BY DEF RemoveAt, before, after
<1>5. \A i \in 1 .. Len(list) - 1 :
        (before \o after)[i] = IF i < k THEN list[i] ELSE list[i + 1]
  BY <1>a, <1>1, <1>2, <1>3
<1>6. Len(before \o after) = Len(list) - 1
  BY <1>a, <1>1, <1>2, <1>3
<1> QED BY <1>3, <1>4, <1>5, <1>6

(* The entries that are kept are distinct and none is the client.          *)
LEMMA ErasedOne ==
  ASSUME NEW list \in Lists, NEW c
  PROVE  /\ Erased(list, c) \in Seq(Roots) /\ Len(Erased(list, c)) <= MaximumEntries
         /\ Distinct(Erased(list, c))
         /\ \A i \in 1 .. Len(Erased(list, c)) : Erased(list, c)[i] # c
<1>a. /\ list \in Seq(Roots) /\ Len(list) <= MaximumEntries /\ Distinct(list)
      /\ Len(list) \in Nat /\ DOMAIN list = 1 .. Len(list) /\ MaximumEntries \in Nat
  BY ListsAre, LenProperties, RecentAssumption DEF RecentAssumption
<1>b. ToSet(list) = {list[i] : i \in 1 .. Len(list)}
  BY <1>a DEF ToSet
<1>1. CASE c \notin ToSet(list)
  <2>1. Erased(list, c) = list
    BY <1>1 DEF Erased
  <2>2. \A i \in 1 .. Len(list) : list[i] # c
    BY <1>1, <1>b
  <2> QED BY <1>a, <2>1, <2>2
<1>2. CASE c \in ToSet(list)
  <2> DEFINE k == CHOOSE k \in DOMAIN list : list[k] = c
  <2>1. k \in 1 .. Len(list) /\ list[k] = c
    BY <1>2, <1>a, <1>b
  <2>2. Erased(list, c) = RemoveAt(list, k)
    BY <1>2 DEF Erased
  <2> HIDE DEF k
  <2> DEFINE kept == RemoveAt(list, k)
  <2>3. /\ kept \in Seq(Roots) /\ Len(kept) = Len(list) - 1
        /\ \A i \in 1 .. Len(list) - 1 : kept[i] = IF i < k THEN list[i] ELSE list[i + 1]
    BY <1>a, <2>1, RemovedOne
  <2> HIDE DEF kept
  <2>4. DOMAIN kept = 1 .. Len(list) - 1
    BY <2>3, LenProperties
  <2>5. \A i, j \in 1 .. Len(list) : list[i] = list[j] => i = j
    BY <1>a DEF Distinct
  <2>6. \A i \in 1 .. Len(list) - 1 : kept[i] # c
    BY <1>a, <2>1, <2>3, <2>5
  <2>7. Distinct(kept)
    <3>1. SUFFICES ASSUME NEW i \in 1 .. Len(list) - 1, NEW j \in 1 .. Len(list) - 1,
                          kept[i] = kept[j]
                   PROVE  i = j
      BY <2>4 DEF Distinct
    <3> QED BY <1>a, <2>1, <2>3, <2>5, <3>1
  <2> QED BY <1>a, <2>2, <2>3, <2>6, <2>7 DEF kept
<1> QED BY <1>1, <1>2

(* promote() keeps the list one that load() would read as it is.           *)
LEMMA PromotedIsAList ==
  ASSUME NEW list \in Lists, NEW c \in Roots
  PROVE  Promoted(list, c) \in Lists \ {<< >>}
<1> DEFINE others == Erased(list, c)
           kept == IF Len(others) < MaximumEntries THEN Len(others) ELSE MaximumEntries - 1
           rest == SubSeq(others, 1, kept)
<1>a. MaximumEntries \in Nat /\ MaximumEntries >= 1
  BY RecentAssumption DEF RecentAssumption
<1>b. /\ others \in Seq(Roots) /\ Len(others) <= MaximumEntries /\ Distinct(others)
      /\ \A i \in 1 .. Len(others) : others[i] # c
  BY ErasedOne
<1> HIDE DEF others
<1>c. Len(others) \in Nat /\ DOMAIN others = 1 .. Len(others)
  BY <1>b, LenProperties
<1>1. kept \in Nat /\ kept <= Len(others) /\ kept + 1 <= MaximumEntries
  BY <1>a, <1>b, <1>c
<1> HIDE DEF kept
<1>2. \A i \in 1 .. kept : others[i] \in Roots
  BY <1>b, <1>c, <1>1, ElementOfSeq
<1>3. /\ rest \in Seq(Roots) /\ Len(rest) = kept
      /\ \A i \in 1 .. kept : rest[i] = others[i]
  <2>1. /\ rest \in Seq(Roots) /\ Len(rest) = IF 1 <= kept THEN kept - 1 + 1 ELSE 0
        /\ \A i \in 1 .. kept - 1 + 1 : rest[i] = others[1 + i - 1]
    BY <1>1, <1>2, SubSeqProperties
  <2> QED BY <1>1, <2>1
<1> HIDE DEF rest
<1>4. << c >> \in Seq(Roots) /\ Len(<< c >>) = 1 /\ << c >>[1] = c
  OBVIOUS
<1>5. /\ << c >> \o rest \in Seq(Roots) /\ Len(<< c >> \o rest) = 1 + kept
      /\ \A i \in 1 .. 1 + kept :
           (<< c >> \o rest)[i] = IF i <= 1 THEN << c >>[i] ELSE rest[i - 1]
  BY <1>3, <1>4, ConcatProperties
<1> DEFINE new == << c >> \o rest
<1> HIDE DEF new
<1>6. /\ new \in Seq(Roots) /\ Len(new) = 1 + kept /\ DOMAIN new = 1 .. 1 + kept /\ new[1] = c
      /\ \A i \in 2 .. 1 + kept : new[i] = others[i - 1]
  <2>1. new \in Seq(Roots) /\ Len(new) = 1 + kept
    BY <1>5 DEF new
  <2>2. \A i \in 1 .. 1 + kept : new[i] = IF i <= 1 THEN << c >>[i] ELSE rest[i - 1]
    BY <1>5 DEF new
  <2>3. DOMAIN new = 1 .. 1 + kept
    BY <2>1, LenProperties
  <2>4. new[1] = c
    BY <1>1, <1>4, <2>2
  <2>5. \A i \in 2 .. 1 + kept : new[i] = others[i - 1]
    BY <1>1, <1>3, <2>2
  <2> QED BY <2>1, <2>3, <2>4, <2>5
<1>7. Distinct(new)
  <2>1. SUFFICES ASSUME NEW i \in 1 .. 1 + kept, NEW j \in 1 .. 1 + kept, new[i] = new[j]
                 PROVE  i = j
    BY <1>6 DEF Distinct
  <2>2. \A m, n \in 1 .. kept : others[m] = others[n] => m = n
    BY <1>b, <1>c, <1>1 DEF Distinct
  <2>3. \A m \in 1 .. kept : others[m] # c
    BY <1>b, <1>c, <1>1
  <2>4. i = 1 \/ (i \in 2 .. 1 + kept /\ i - 1 \in 1 .. kept)
    BY <1>1
  <2>5. j = 1 \/ (j \in 2 .. 1 + kept /\ j - 1 \in 1 .. kept)
    BY <1>1
  <2>6. CASE i = 1 /\ j \in 2 .. 1 + kept /\ j - 1 \in 1 .. kept
    BY <1>6, <2>1, <2>3, <2>6
  <2>7. CASE j = 1 /\ i \in 2 .. 1 + kept /\ i - 1 \in 1 .. kept
    BY <1>6, <2>1, <2>3, <2>7
  <2>8. CASE /\ i \in 2 .. 1 + kept /\ i - 1 \in 1 .. kept
             /\ j \in 2 .. 1 + kept /\ j - 1 \in 1 .. kept
    <3>1. others[i - 1] = others[j - 1]
      BY <1>6, <2>1, <2>8
    <3>2. i - 1 = j - 1
      BY <2>2, <2>8, <3>1
    <3> QED BY <1>1, <2>8, <3>2
  <2> QED BY <2>4, <2>5, <2>6, <2>7, <2>8
<1>8. new \in Lists /\ new # << >>
  BY <1>1, <1>6, <1>7, ListsAre, <1>a
<1> QED BY <1>8 DEF Promoted, new, rest, kept, others

(* Whatever is in the file, a list is read of it.                          *)
LEMMA ReadIsAList ==
  ASSUME NEW content \in Contents, NEW list \in Read(content)
  PROVE  list \in Lists
<1>1. CASE content = None
  BY <1>1, NoEntries DEF Read
<1>2. CASE content # None /\ content = Half
  BY <1>2 DEF Read
<1>3. CASE content # None /\ content # Half
  BY <1>3 DEF Read, Contents
<1> QED BY <1>1, <1>2, <1>3

-----------------------------------------------------------------------------
(* What an instance does outside its sessions.                             *)

LEMMA GoesStep ==
  ASSUME RecentTypes, NEW i \in Instances, NEW to \in Places, Goes(i, to)
  PROVE  /\ pc' \in [Instances -> Places] /\ pc'[i] = to
         /\ \A j \in Instances \ {i} : pc'[j] = pc[j]
BY DEF RecentTypes, Goes

LEMMA EndsStep ==
  ASSUME RecentTypes, NEW i \in Instances, Ends(i)
  PROVE  /\ pc' \in [Instances -> Places] /\ pc'[i] = "off"
         /\ entries' \in [Instances -> Lists] /\ client' \in [Instances -> Roots \cup {None}]
         /\ \A j \in Instances \ {i} :
              pc'[j] = pc[j] /\ entries'[j] = entries[j] /\ client'[j] = client[j]
<1>1. pc' \in [Instances -> Places] /\ pc'[i] = "off" /\ \A j \in Instances \ {i} : pc'[j] = pc[j]
  BY GoesStep DEF Ends, Places
<1>2. entries' = [entries EXCEPT ![i] = << >>] /\ client' = [client EXCEPT ![i] = None]
  BY DEF Ends
<1>3. entries \in [Instances -> Lists] /\ client \in [Instances -> Roots \cup {None}]
  BY DEF RecentTypes
<1>4. /\ entries' \in [Instances -> Lists]
      /\ \A j \in Instances \ {i} : entries'[j] = entries[j]
  BY <1>2, <1>3, NoEntries
<1>5. /\ client' \in [Instances -> Roots \cup {None}]
      /\ \A j \in Instances \ {i} : client'[j] = client[j]
  BY <1>2, <1>3
<1> QED BY <1>1, <1>4, <1>5

(* A step that touches no file, of an instance that was not writing.       *)
LEMMA QuietStep ==
  ASSUME RecentInv, NEW i \in Instances, UNCHANGED <<valid, fileVars>>,
         ~ Saving(i), pc'[i] \notin {"write", "move"},
         pc' \in [Instances -> Places], entries' \in [Instances -> Lists],
         client' \in [Instances -> Roots \cup {None}],
         \A j \in Instances \ {i} :
           pc'[j] = pc[j] /\ entries'[j] = entries[j] /\ client'[j] = client[j],
         pc'[i] \in {"promote", "save", "preview"} => client'[i] \in Roots,
         pc'[i] = "save" => entries'[i] # << >>
  PROVE  RecentInv'
<1> USE DEF RecentInv, fileVars
<1>1. RecentTypes'
  BY DEF RecentTypes
<1>2. SaverInv'
  BY DEF SaverInv, Saving
<1>3. AloneInv'
  BY DEF AloneInv, Saving
<1>4. HistoryIsWhole'
  BY DEF HistoryIsWhole
<1> QED BY <1>1, <1>2, <1>3, <1>4

LEMMA StartKeeps ==
  ASSUME RecentInv, NEW i \in Instances, Start(i)
  PROVE  RecentInv' /\ pc[i] = "off"
<1>a. RecentTypes
  BY DEF RecentInv
<1>1. PICK list \in Read(settings) : entries' = [entries EXCEPT ![i] = list]
  BY DEF Start
<1>2. list \in Lists
  BY <1>a, ReadIsAList DEF RecentTypes
<1>3. entries' \in [Instances -> Lists] /\ \A j \in Instances \ {i} : entries'[j] = entries[j]
  BY <1>a, <1>1, <1>2 DEF RecentTypes
<1>4. pc' \in [Instances -> Places] /\ pc'[i] = "choose" /\ \A j \in Instances \ {i} : pc'[j] = pc[j]
  BY <1>a, GoesStep DEF Start, Places
<1>5. pc[i] = "off" /\ UNCHANGED <<valid, fileVars, client>> /\ ~ Saving(i)
  BY DEF Start, Saving
<1>6. client' \in [Instances -> Roots \cup {None}]
  BY <1>a, <1>5 DEF RecentTypes
<1> QED BY <1>3, <1>4, <1>5, <1>6, QuietStep

LEMMA ChooseKeeps ==
  ASSUME RecentInv, NEW i \in Instances, NEW c, Choose(i, c)
  PROVE  RecentInv' /\ pc[i] = "choose"
<1>a. RecentTypes
  BY DEF RecentInv
<1>1. c \in Roots /\ client' = [client EXCEPT ![i] = c]
  BY <1>a DEF Choose, RecentTypes
<1>2. /\ client' \in [Instances -> Roots \cup {None}] /\ client'[i] \in Roots
      /\ \A j \in Instances \ {i} : client'[j] = client[j]
  BY <1>a, <1>1 DEF RecentTypes
<1>3. /\ pc' \in [Instances -> Places] /\ pc'[i] = "promote"
      /\ \A j \in Instances \ {i} : pc'[j] = pc[j]
  BY <1>a, GoesStep DEF Choose, Places
<1>4. pc[i] = "choose" /\ UNCHANGED <<valid, fileVars, entries>> /\ ~ Saving(i)
  BY DEF Choose, Saving
<1>5. entries' \in [Instances -> Lists]
  BY <1>a, <1>4 DEF RecentTypes
<1> QED BY <1>2, <1>3, <1>4, <1>5, QuietStep

LEMMA LeaveKeeps ==
  ASSUME RecentInv, NEW i \in Instances, ~ Saving(i), Ends(i), UNCHANGED <<valid, fileVars>>
  PROVE  RecentInv'
<1>a. RecentTypes
  BY DEF RecentInv
<1> QED BY <1>a, EndsStep, QuietStep

LEMMA SwitchKeeps ==
  ASSUME RecentInv, NEW i \in Instances, NEW c \in Roots, pc[i] = "preview", Switch(i, c)
  PROVE  RecentInv'
<1>a. RecentTypes
  BY DEF RecentInv
<1>1. /\ client' \in [Instances -> Roots \cup {None}] /\ client'[i] \in Roots
      /\ \A j \in Instances \ {i} : client'[j] = client[j]
  BY <1>a DEF Switch, RecentTypes
<1>2. /\ pc' \in [Instances -> Places] /\ pc'[i] = "promote"
      /\ \A j \in Instances \ {i} : pc'[j] = pc[j]
  BY <1>a, GoesStep DEF Switch, Places
<1>3. UNCHANGED <<valid, fileVars, entries>> /\ ~ Saving(i)
  BY DEF Switch, Saving
<1>4. entries' \in [Instances -> Lists]
  BY <1>a, <1>3 DEF RecentTypes
<1> QED BY <1>1, <1>2, <1>3, <1>4, QuietStep

LEMMA PromoteKeeps ==
  ASSUME RecentInv, NEW i \in Instances, Promote(i)
  PROVE  RecentInv'
<1>a. RecentTypes
  BY DEF RecentInv
<1>1. pc[i] = "promote" /\ client[i] \in Roots /\ entries[i] \in Lists
  BY DEF Promote, RecentInv, RecentTypes, SaverInv
<1>2. Promoted(entries[i], client[i]) \in Lists \ {<< >>}
  BY <1>1, PromotedIsAList
<1>3. entries' = [entries EXCEPT ![i] = Promoted(entries[i], client[i])]
  BY <1>a DEF Promote, RecentTypes
<1>4. /\ entries' \in [Instances -> Lists] /\ entries'[i] # << >>
      /\ \A j \in Instances \ {i} : entries'[j] = entries[j]
  BY <1>a, <1>2, <1>3 DEF RecentTypes
<1>5. pc' \in [Instances -> Places] /\ pc'[i] = "save" /\ \A j \in Instances \ {i} : pc'[j] = pc[j]
  BY <1>a, GoesStep DEF Promote, Places
<1>6. UNCHANGED <<valid, fileVars, client>> /\ ~ Saving(i)
  BY <1>1 DEF Promote, Saving
<1>7. client' \in [Instances -> Roots \cup {None}]
  BY <1>a, <1>6 DEF RecentTypes
<1> QED BY <1>1, <1>4, <1>5, <1>6, <1>7, QuietStep

-----------------------------------------------------------------------------
(* Saving.                                                                 *)

LEMMA OpenKeeps ==
  ASSUME RecentInv, NEW i \in Instances, OpenTemporary(i)
  PROVE  RecentInv'
<1> USE DEF RecentInv
<1>a. /\ pc[i] = "save" /\ temporary' = << >> /\ open' = open \cup {i}
      /\ clash' = (clash \/ \E j \in Instances \ {i} : Saving(j))
      /\ UNCHANGED <<valid, settings, entries, client>>
  BY DEF OpenTemporary
<1>b. /\ pc' \in [Instances -> Places] /\ pc'[i] = "write"
      /\ \A j \in Instances \ {i} : pc'[j] = pc[j]
  BY GoesStep DEF OpenTemporary, Places
<1>1. RecentTypes'
  BY <1>a, <1>b, NoEntries DEF RecentTypes, Contents
<1>2. SaverInv'
  BY <1>a, <1>b DEF SaverInv
<1>3. AloneInv'
  <2>1. SUFFICES ASSUME ~ clash' PROVE AloneInv'
    BY DEF AloneInv
  <2>2. ~ clash /\ \A j \in Instances \ {i} : ~ Saving(j)
    BY <1>a, <2>1
  <2>3. \A j \in Instances \ {i} : pc'[j] \notin {"write", "move"}
    BY <1>b, <2>2 DEF Saving
  <2> QED BY <1>a, <1>b, <2>3 DEF AloneInv, Saving
<1>4. HistoryIsWhole'
  BY <1>a DEF HistoryIsWhole
<1> QED BY <1>1, <1>2, <1>3, <1>4

LEMMA WriteKeeps ==
  ASSUME RecentInv, NEW i \in Instances, WriteTemporary(i)
  PROVE  RecentInv'
<1> USE DEF RecentInv
<1>a. /\ pc[i] = "write" /\ open' = open \ {i}
      /\ temporary' \in {entries[i]} \cup (IF temporary = << >> THEN {} ELSE {Half})
      /\ UNCHANGED <<valid, settings, clash, entries, client>>
  BY DEF WriteTemporary
<1>b. /\ pc' \in [Instances -> Places] /\ pc'[i] = "move"
      /\ \A j \in Instances \ {i} : pc'[j] = pc[j]
  BY GoesStep DEF WriteTemporary, Places
<1>1. RecentTypes'
  <2>1. temporary' \in Contents
    BY <1>a DEF RecentTypes, Contents
  <2> QED BY <1>a, <1>b, <2>1 DEF RecentTypes
<1>2. SaverInv'
  BY <1>a, <1>b DEF SaverInv
<1>3. AloneInv'
  <2>1. SUFFICES ASSUME ~ clash' PROVE AloneInv'
    BY DEF AloneInv
  <2>2. temporary' = entries[i] /\ \A j \in Instances \ {i} : pc[j] \notin {"write", "move"}
    BY <1>a, <2>1 DEF AloneInv, Saving
  <2> QED BY <1>a, <1>b, <2>2 DEF AloneInv, Saving
<1>4. HistoryIsWhole'
  BY <1>a DEF HistoryIsWhole
<1> QED BY <1>1, <1>2, <1>3, <1>4

LEMMA MoveKeeps ==
  ASSUME RecentInv, NEW i \in Instances, Move(i)
  PROVE  RecentInv'
<1> USE DEF RecentInv
<1>a. /\ pc[i] = "move" /\ temporary # None /\ settings' = temporary /\ temporary' = None
      /\ UNCHANGED <<valid, open, clash, entries, client>>
  BY DEF Move
<1>b. /\ pc' \in [Instances -> Places] /\ pc'[i] = "preview"
      /\ \A j \in Instances \ {i} : pc'[j] = pc[j]
  BY GoesStep DEF Move, Places
<1>1. RecentTypes'
  BY <1>a, <1>b DEF RecentTypes, Contents
<1>2. SaverInv'
  BY <1>a, <1>b DEF SaverInv
<1>3. AloneInv'
  <2>1. SUFFICES ASSUME ~ clash' PROVE AloneInv'
    BY DEF AloneInv
  <2>2. \A j \in Instances \ {i} : pc[j] \notin {"write", "move"}
    BY <1>a, <2>1 DEF AloneInv, Saving
  <2> QED BY <1>b, <2>2 DEF AloneInv, Saving
<1>4. HistoryIsWhole'
  <2>1. SUFFICES ASSUME ~ clash' PROVE settings' \in Lists \ {<< >>}
    BY DEF HistoryIsWhole
  <2>2. temporary = entries[i] /\ entries[i] # << >> /\ entries[i] \in Lists
    BY <1>a, <2>1 DEF AloneInv, SaverInv, RecentTypes
  <2> QED BY <1>a, <2>2
<1> QED BY <1>1, <1>2, <1>3, <1>4

LEMMA GiveUpKeeps ==
  ASSUME RecentInv, NEW i \in Instances, GiveUpSaving(i)
  PROVE  RecentInv'
<1> USE DEF RecentInv
<1>a. /\ pc[i] \in {"save", "write", "move"} /\ open' = open \ {i}
      /\ temporary' = IF open' = {} THEN None ELSE temporary
      /\ UNCHANGED <<valid, settings, clash, entries, client>>
  BY DEF GiveUpSaving
<1>b. /\ pc' \in [Instances -> Places] /\ pc'[i] = "preview"
      /\ \A j \in Instances \ {i} : pc'[j] = pc[j]
  BY GoesStep DEF GiveUpSaving, Places
<1>1. RecentTypes'
  BY <1>a, <1>b DEF RecentTypes, Contents
<1>2. SaverInv'
  BY <1>a, <1>b DEF SaverInv
<1>3. AloneInv'
  <2>1. SUFFICES ASSUME ~ clash' PROVE AloneInv'
    BY DEF AloneInv
  <2>2. \A j, k \in Instances : Saving(j)' /\ Saving(k)' => j = k
    BY <1>a, <1>b, <2>1 DEF AloneInv, Saving
  <2>3. ASSUME NEW j \in Instances, pc'[j] = "write"
        PROVE  temporary' = << >>
    <3>1. j # i /\ pc[j] = "write"
      BY <1>b, <2>3
    <3>2. temporary = << >> /\ j \in open'
      BY <1>a, <2>1, <3>1 DEF AloneInv, SaverInv
    <3> QED BY <1>a, <3>2
  <2>4. ASSUME NEW j \in Instances, pc'[j] = "move"
        PROVE  temporary' \in {entries'[j], None}
    <3>1. j # i /\ pc[j] = "move"
      BY <1>b, <2>4
    <3>2. temporary \in {entries[j], None}
      BY <1>a, <2>1, <3>1 DEF AloneInv
    <3> QED BY <1>a, <3>2
  <2> QED BY <2>2, <2>3, <2>4 DEF AloneInv
<1>4. HistoryIsWhole'
  BY <1>a DEF HistoryIsWhole
<1> QED BY <1>1, <1>2, <1>3, <1>4

LEMMA CrashKeeps ==
  ASSUME RecentInv, NEW i \in Instances, Crash(i)
  PROVE  RecentInv'
<1> USE DEF RecentInv
<1>a. /\ open' = open \ {i} /\ UNCHANGED <<valid, settings, clash>>
      /\ temporary' \in {temporary} \cup (IF pc[i] = "write" THEN {Half} ELSE {})
  BY DEF Crash
<1>b. /\ pc' \in [Instances -> Places] /\ pc'[i] = "off"
      /\ entries' \in [Instances -> Lists] /\ client' \in [Instances -> Roots \cup {None}]
      /\ \A j \in Instances \ {i} :
           pc'[j] = pc[j] /\ entries'[j] = entries[j] /\ client'[j] = client[j]
  BY EndsStep DEF Crash
<1>1. RecentTypes'
  BY <1>a, <1>b DEF RecentTypes, Contents
<1>2. SaverInv'
  BY <1>a, <1>b DEF SaverInv
<1>3. AloneInv'
  <2>1. SUFFICES ASSUME ~ clash' PROVE AloneInv'
    BY DEF AloneInv
  <2>2. \A j, k \in Instances : Saving(j)' /\ Saving(k)' => j = k
    BY <1>a, <1>b, <2>1 DEF AloneInv, Saving
  <2>3. ASSUME NEW j \in Instances, pc'[j] \in {"write", "move"}
        PROVE  /\ pc'[j] = "write" => temporary' = << >>
               /\ pc'[j] = "move" => temporary' \in {entries'[j], None}
    <3>1. j # i /\ pc[j] = pc'[j] /\ entries'[j] = entries[j]
      BY <1>b, <2>3
    <3>2. pc[i] # "write"
      BY <1>a, <2>1, <2>3, <3>1 DEF AloneInv, Saving
    <3> QED BY <1>a, <2>1, <2>3, <3>1, <3>2 DEF AloneInv
  <2> QED BY <2>2, <2>3 DEF AloneInv
<1>4. HistoryIsWhole'
  BY <1>a DEF HistoryIsWhole
<1> QED BY <1>1, <1>2, <1>3, <1>4

LEMMA SameRecent ==
  ASSUME RecentInv, UNCHANGED <<fileVars, pc, entries, client>>, valid' \subseteq Roots
  PROVE  RecentInv'
BY DEF RecentInv, RecentTypes, SaverInv, AloneInv, Saving, HistoryIsWhole, fileVars

LEMMA WorksKeeps ==
  ASSUME RecentInv, NEW i \in Instances, Works(i)
  PROVE  RecentInv' /\ pc[i] # "preview"
<1>1. CASE ChooseRecent(i)
  BY <1>1, ChooseKeeps DEF ChooseRecent
<1>2. CASE \E c \in Roots : ChooseOther(i, c)
  BY <1>2, ChooseKeeps DEF ChooseOther
<1>3. CASE ChooseNone(i)
  BY <1>3, LeaveKeeps DEF ChooseNone, Saving
<1>4. CASE Promote(i)
  BY <1>4, PromoteKeeps DEF Promote
<1>5. CASE OpenTemporary(i)
  BY <1>5, OpenKeeps DEF OpenTemporary
<1>6. CASE WriteTemporary(i)
  BY <1>6, WriteKeeps DEF WriteTemporary
<1>7. CASE Move(i)
  BY <1>7, MoveKeeps DEF Move
<1>8. CASE GiveUpSaving(i)
  BY <1>8, GiveUpKeeps DEF GiveUpSaving
<1> QED BY <1>1, <1>2, <1>3, <1>4, <1>5, <1>6, <1>7, <1>8 DEF Works

-----------------------------------------------------------------------------
(* The session.                                                            *)

LEMMA InitKeeps == Init => SessionInv
<1> SUFFICES ASSUME Init PROVE SessionInv
  OBVIOUS
<1> USE DEF Init, RecentInit, Closed
<1>1. RecentTypes
  <2>1. pc \in [Instances -> Places] /\ entries \in [Instances -> Lists]
    BY NoEntries DEF Places
  <2> QED BY <2>1 DEF RecentTypes, Contents
<1>2. SaverInv /\ AloneInv /\ HistoryIsWhole
  BY DEF SaverInv, AloneInv, Saving, HistoryIsWhole
<1>3. SessionTypes /\ FrameInv /\ SwitchEndsNoJob
  BY DEF SessionTypes, Frames, FrameInv, SwitchEndsNoJob
<1> QED BY <1>1, <1>2, <1>3 DEF SessionInv, RecentInv

(* Between sessions nothing of the session changes.                        *)
LEMMA BetweenKeeps ==
  ASSUME SessionInv, RecentInv', frame = "closed", UNCHANGED <<frame, running, blocked, requested,
         clicked, active>>
  PROVE  SessionInv'
BY DEF SessionInv, SessionTypes, FrameInv, SwitchEndsNoJob

(* A session that is over leaves nothing.                                  *)
LEMMA CloseKeeps ==
  ASSUME SessionInv, RecentInv', Close
  PROVE  SessionInv'
<1>1. SessionTypes' /\ SwitchEndsNoJob'
  BY DEF Close, SessionTypes, Frames, SwitchEndsNoJob
<1>2. FrameInv'
  BY DEF Close, FrameInv
<1> QED BY <1>1, <1>2 DEF SessionInv

LEMMA MineKeeps ==
  ASSUME SessionInv, Mine
  PROVE  SessionInv'
<1>a. Me \in Instances /\ RecentInv
  BY SessionAssumption DEF SessionAssumption, SessionInv
<1>1. CASE Start(Me) /\ UNCHANGED <<frame, running, blocked, requested, clicked, jobVars, sessions>>
  <2>1. RecentInv' /\ frame = "closed"
    BY <1>a, <1>1, StartKeeps DEF SessionInv, FrameInv
  <2> QED BY <1>1, <2>1, BetweenKeeps DEF jobVars
<1>2. CASE Works(Me) /\ UNCHANGED sessionVars
  <2>1. RecentInv' /\ frame = "closed"
    BY <1>a, <1>2, WorksKeeps DEF SessionInv, FrameInv
  <2> QED BY <1>2, <2>1, BetweenKeeps DEF sessionVars, jobVars
<1>3. CASE Crash(Me) /\ Close
  BY <1>a, <1>3, CrashKeeps, CloseKeeps
<1> QED BY <1>1, <1>2, <1>3 DEF Mine

LEMMA OthersKeep ==
  ASSUME SessionInv, NEW i \in Instances \ {Me}, Others(i)
  PROVE  SessionInv'
<1>a. RecentInv /\ valid \subseteq Roots
  BY DEF SessionInv, RecentInv, RecentTypes
<1>1. RecentInv'
  <2>1. CASE Start(i) \/ Works(i) \/ Crash(i)
    BY <1>a, <2>1, StartKeeps, WorksKeeps, CrashKeeps
  <2>2. CASE pc[i] = "preview" /\ Leave(i)
    BY <1>a, <2>2, LeaveKeeps DEF Leave, Saving, fileVars
  <2>3. CASE pc[i] = "preview" /\ \E c \in valid : Switch(i, c)
    BY <1>a, <2>3, SwitchKeeps
  <2> QED BY <2>1, <2>2, <2>3 DEF Others
<1> QED BY <1>1, BetweenKeeps DEF Others, sessionVars, jobVars

(* The frame: what the thread of the program and the user do in it.        *)
LEMMA FrameKeeps ==
  ASSUME SessionInv, Frame \/ Clicks \/ \E c \in Roots \cup {None} : Picked(c)
  PROVE  SessionInv'
<1>a. Me \in Instances /\ RecentInv /\ RecentTypes /\ SessionTypes /\ FrameInv /\ SwitchEndsNoJob
  BY SessionAssumption DEF SessionAssumption, SessionInv, RecentInv
<1>b. UNCHANGED recentVars => RecentInv' /\ pc' = pc
  BY <1>a, SameRecent DEF recentVars, RecentTypes
<1>1. CASE Preview
  BY <1>a, <1>b, <1>1
  DEF Preview, SessionInv, SessionTypes, Frames, FrameInv, SwitchEndsNoJob, jobVars
<1>2. CASE NoPreview
  <2>1. RecentInv'
    BY <1>a, <1>2, LeaveKeeps DEF NoPreview, Leave, Saving
  <2> QED BY <1>2, <2>1, BetweenKeeps DEF NoPreview, jobVars
<1>3. CASE Events
  BY <1>a, <1>b, <1>3
  DEF Events, SessionInv, SessionTypes, Frames, FrameInv, SwitchEndsNoJob, jobVars
<1>4. CASE Poll
  <2>1. requested = None
    BY <1>a, <1>4 DEF Poll, FrameInv
  <2>2. blocked' <=> active' # {}
    BY <1>4 DEF Poll
  <2>3. blocked' \in BOOLEAN
    BY <1>4 DEF Poll
  <2> QED BY <1>a, <1>b, <1>4, <2>1, <2>2, <2>3
      DEF Poll, SessionInv, SessionTypes, Frames, FrameInv, SwitchEndsNoJob
<1>5. CASE PollQuery
  <2>1. active' \subseteq active
    BY <1>5 DEF PollQuery
  <2> QED BY <1>a, <1>b, <1>5, <2>1
      DEF PollQuery, SessionInv, SessionTypes, Frames, FrameInv, SwitchEndsNoJob
<1>6. CASE EndFrame
  <2>1. running' \in BOOLEAN /\ frame' \in {"events", "shutdown"} /\ (requested # None => frame' = "shutdown")
    BY <1>6 DEF EndFrame
  <2> QED BY <1>a, <1>b, <1>6, <2>1
      DEF EndFrame, SessionInv, SessionTypes, Frames, FrameInv, SwitchEndsNoJob, jobVars
<1>7. CASE Shutdown
  <2>1. pc[Me] = "preview" /\ ~ Saving(Me)
    BY <1>a, <1>7 DEF Shutdown, FrameInv, Saving
  <2>2. CASE requested = None
    BY <1>a, <1>7, <2>1, <2>2, LeaveKeeps, CloseKeeps DEF Shutdown, Leave
  <2>3. CASE requested # None
    BY <1>a, <1>7, <2>1, <2>3, SwitchKeeps, CloseKeeps DEF Shutdown, SessionTypes
  <2> QED BY <2>2, <2>3
<1>8. CASE \E j \in Jobs : StartBuild(j)
  <2>1. PICK j \in Jobs : StartBuild(j)
    BY <1>8
  <2>2. blocked' \in BOOLEAN
    BY <2>1 DEF StartBuild
  <2> QED BY <1>a, <1>b, <2>1, <2>2
      DEF StartBuild, SessionInv, SessionTypes, Frames, FrameInv, SwitchEndsNoJob
<1>9. CASE \E c \in Roots : RequestSwitch(c)
  <2>1. PICK c \in Roots : RequestSwitch(c)
    BY <1>9
  <2>2. active = {} /\ requested' \in Roots \cup {None}
    BY <1>a, <2>1 DEF RequestSwitch, MayRequest, Request, FrameInv, SessionTypes
  <2> QED BY <1>a, <1>b, <2>1, <2>2
      DEF RequestSwitch, SessionInv, SessionTypes, Frames, FrameInv, SwitchEndsNoJob, jobVars
<1>10. CASE Browse
  BY <1>a, <1>b, <1>10
  DEF Browse, MayRequest, SessionInv, SessionTypes, Frames, FrameInv, SwitchEndsNoJob, jobVars
<1>11. CASE StartQuery
  BY <1>a, <1>b, <1>11
  DEF StartQuery, SessionInv, SessionTypes, Frames, FrameInv, SwitchEndsNoJob
<1>12. CASE \E c \in Roots \cup {None} : Picked(c)
  <2>1. PICK c \in Roots \cup {None} : Picked(c)
    BY <1>12
  <2>2. requested' \in Roots \cup {None}
    BY <1>a, <2>1 DEF Picked, Request, SessionTypes
  <2> QED BY <1>a, <1>b, <2>1, <2>2
      DEF Picked, SessionInv, SessionTypes, Frames, FrameInv, SwitchEndsNoJob, jobVars
<1> QED BY <1>1, <1>2, <1>3, <1>4, <1>5, <1>6, <1>7, <1>8, <1>9, <1>10, <1>11, <1>12
        DEF Frame, Clicks

LEMMA NextKeeps ==
  ASSUME SessionInv, [Next]_vars
  PROVE  SessionInv'
<1>a. RecentInv /\ valid \subseteq Roots
  BY DEF SessionInv, RecentInv, RecentTypes
<1>1. CASE Mine
  BY <1>1, MineKeeps
<1>2. CASE Frame \/ Clicks \/ \E c \in Roots \cup {None} : Picked(c)
  BY <1>2, FrameKeeps
<1>3. CASE \E j \in Jobs : WorkerEnds(j)
  <2>1. RecentInv' /\ pc' = pc
    BY <1>a, <1>3, SameRecent DEF WorkerEnds, recentVars
  <2> QED BY <1>3, <2>1
      DEF WorkerEnds, SessionInv, SessionTypes, FrameInv, SwitchEndsNoJob
<1>4. CASE \E i \in Instances \ {Me} : Others(i)
  BY <1>4, OthersKeep
<1>5. CASE \E c \in Roots : Vanish(c) /\ UNCHANGED sessionVars
  <2>1. valid' \subseteq Roots /\ UNCHANGED <<fileVars, pc, entries, client>>
    BY <1>a, <1>5 DEF Vanish
  <2>2. RecentInv' /\ pc' = pc
    BY <1>a, <2>1, SameRecent
  <2> QED BY <1>5, <2>2
      DEF sessionVars, jobVars, SessionInv, SessionTypes, FrameInv, SwitchEndsNoJob
<1>6. CASE UNCHANGED vars
  <2>1. RecentInv' /\ pc' = pc
    BY <1>a, <1>6, SameRecent DEF vars, recentVars
  <2> QED BY <1>6, <2>1
      DEF vars, sessionVars, jobVars, SessionInv, SessionTypes, FrameInv, SwitchEndsNoJob
<1> QED BY <1>1, <1>2, <1>3, <1>4, <1>5, <1>6 DEF Next

-----------------------------------------------------------------------------

(* Wherever a frame of Application::preview is, and whatever the instances *)
(* do with settings.ini: one click a frame at most has been, a client is   *)
(* asked for only by it, and who saves holds a list.                       *)
THEOREM SessionInvariant == Spec => []SessionInv
<1>1. SessionInv /\ [Next]_vars => SessionInv'
  BY NextKeeps
<1> QED BY <1>1, InitKeeps, PTL DEF Spec

(* UISystem lets no client be asked for while a job runs that the switch   *)
(* would end, though the flag is computed once a frame and set by windows  *)
(* that know a part of the jobs.                                           *)
THEOREM SwitchesEndNoJob == Spec => []SwitchEndsNoJob
<1>1. SessionInv => SwitchEndsNoJob
  BY DEF SessionInv
<1> QED BY <1>1, SessionInvariant, PTL

(* RecentClients::save leaves a whole list or the one before, whatever     *)
(* crashes and wherever it gives up, unless two instances save at once.    *)
THEOREM HistoriesAreWhole == Spec => []HistoryIsWhole
<1>1. SessionInv => HistoryIsWhole
  BY DEF SessionInv, RecentInv
<1> QED BY <1>1, SessionInvariant, PTL
=============================================================================
