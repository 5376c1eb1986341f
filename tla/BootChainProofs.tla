---------------------------- MODULE BootChainProofs ----------------------------
(***************************************************************************)
(* Proofs about BootChain, for any set of images and any sizes: what is    *)
(* booted is whole, updates leave the active slot alone, trials end.       *)
(***************************************************************************)
EXTENDS BootChain, TLAPS

\* The program is between the end of bootloader_init and a commit or a load
Updating == {"exec", "trigger", "session", "verify"}

\* dfu_receive's statics make sense: the session never writes the active slot,
\* and what is buffered was received
SessionInv ==
  /\ session.buffered <= session.received
  /\ session.started => session.base # meta.active
  /\ ~ session.started => session.buffered = 0
  /\ pc # "session" /\ pc # "verify" => session = NoSession

\* Only a cold boot reaches the application without an update
FlagsInv == ~ flags.cold => flags.dfu

\* What is about to be loaded validates
ValidInv ==
  /\ pc \in Updating \cup {"init_write"} /\ ~ flags.dfu /\ flags.crc_ok
       => Valid(flash[meta.active])
  /\ pc \in {"commit_write", "dfu_write", "load"} => Valid(flash[meta.active])
  /\ pc \in InApp => Valid(loaded)

\* The shadow and the sector agree during an update, if the bootloader's first
\* write has not failed
SyncInv == pc \in Updating /\ saved => sector = meta

\* The application that the last update has committed is followed
Followed == fresh # NoSlot /\ (fresh = "B" \/ ~ torn)

\* As long as it is, the sector is torn or has it on trial, with a count that
\* keeps up with its starts; the shadow, where it will be written or loaded from
FollowedInv ==
  LET R == wdt_meta_read(sector)
  IN  /\ tries <= MaxAttempts
      /\ \/ sector = Torn /\ fresh = "B"
         \/ sector # Torn /\ R.active = fresh /\ R.trial /\ tries <= R.boots + 1
      /\ pc = "init_write" /\ meta.active = fresh =>
           sector # Torn /\ meta.trial /\ meta.boots = R.boots + 1
      /\ pc \in Updating \cup {"dfu_write", "load"} /\ meta.active = fresh =>
           sector # Torn /\ tries <= R.boots
      /\ pc = "dfu_write" /\ meta.active = fresh => meta.trial /\ tries <= meta.boots
      /\ pc = "config_write" /\ meta.active = fresh =>
           sector # Torn /\ meta.trial /\ meta.boots = R.boots

TrialInv ==
  /\ wdt_meta_read(sector).boots < MaxAttempts
  /\ meta.boots < MaxAttempts
  /\ pc = "commit_write" => meta.trial
  /\ fresh = NoSlot => tries = 0
  /\ Followed => FollowedInv

Inv == TypeOK /\ SessionInv /\ FlagsInv /\ ValidInv /\ SyncInv /\ TrialInv

-------------------------------------------------------------------------------

\* The constant values have their types.
LEMMA ValueTypes ==
  /\ wdt_meta_defaults \in Metadata
  /\ NoSession \in Session
  /\ ColdFlags \in Flags
  /\ Erased \in Content
  /\ \A i \in Image : Whole(i) \in Content
<1> USE BootAssumption
<1>1. wdt_meta_defaults \in Metadata
  BY DEF wdt_meta_defaults, Metadata, AppSlot, Policy
<1>2. NoSession \in Session
  BY DEF NoSession, Session, Region, AppSlot
<1>3. ColdFlags \in Flags
  BY DEF ColdFlags, Flags
<1>4. Erased \in Content
  BY DEF Erased, Content
<1>5. \A i \in Image : Whole(i) \in Content
  BY DEF Whole, Content, Chunks
<1> QED BY <1>1, <1>2, <1>3, <1>4, <1>5

\* What the metadata sector is read as has the type of metadata.
LEMMA ReadType ==
  ASSUME NEW x \in Metadata \cup {Torn}
  PROVE  wdt_meta_read(x) \in Metadata
BY ValueTypes DEF wdt_meta_read

\* The invariant holds of every board as it leaves the factory.
LEMMA InitInv == Init => Inv
<1> SUFFICES ASSUME Init PROVE Inv
  OBVIOUS
<1>1. TypeOK
  <2>1. flash \in [Region -> Content]
    BY ValueTypes DEF Init
  <2>2. tries \in Nat /\ retries \in 0 .. Retries /\ fresh \in AppSlot \cup {NoSlot}
    BY BootAssumption DEF Init
  <2>5. armed \in BOOLEAN /\ torn \in BOOLEAN /\ saved \in BOOLEAN
    BY Zenon DEF Init
  <2>3. pc \in Label
    BY DEF Init, Label
  <2>4. sector \in Metadata \cup {Torn}
    BY ValueTypes DEF Init
  <2> QED BY <2>1, <2>2, <2>3, <2>4, <2>5, ValueTypes DEF Init, TypeOK
<1>2. SessionInv /\ FlagsInv
  BY BootAssumption DEF Init, SessionInv, FlagsInv, NoSession, ColdFlags
<1>3. ValidInv /\ SyncInv
  BY DEF Init, ValidInv, SyncInv, Updating, InApp
<1>4. TrialInv
  BY BootAssumption DEF Init, TrialInv, Followed, wdt_meta_read, wdt_meta_defaults
<1> QED BY <1>1, <1>2, <1>3, <1>4 DEF Inv

\* The edits of the metadata keep its type.
LEMMA MetaTypes ==
  ASSUME NEW m \in Metadata
  PROVE  /\ APP_SLOT_OTHER(m.active) \in AppSlot
         /\ TrialResolved(m) \in Metadata
         /\ RolledBack(m) \in Metadata
         /\ Counted(m) \in Metadata
         /\ [m EXCEPT !.resets = 0] \in Metadata
         /\ [m EXCEPT !.trial = FALSE, !.boots = 0, !.resets = 0] \in Metadata
         /\ [m EXCEPT !.active = APP_SLOT_OTHER(m.active), !.trial = TRUE, !.boots = 0]
              \in Metadata
         /\ \A c \in Configs :
              [m EXCEPT !.tolerance = c.tolerance, !.policy = c.policy] \in Metadata
<1> USE BootAssumption
<1>1. APP_SLOT_OTHER(m.active) \in AppSlot
  BY DEF APP_SLOT_OTHER, AppSlot
<1>a. ASSUME NEW x \in Metadata, NEW s \in AppSlot
      PROVE  [x EXCEPT !.active = s] \in Metadata
  BY DEF Metadata
<1>b. ASSUME NEW x \in Metadata, NEW t \in BOOLEAN
      PROVE  [x EXCEPT !.trial = t] \in Metadata
  BY DEF Metadata
<1>c. ASSUME NEW x \in Metadata
      PROVE  [x EXCEPT !.boots = 0] \in Metadata
  BY DEF Metadata
<1>d. ASSUME NEW x \in Metadata
      PROVE  [x EXCEPT !.resets = 0] \in Metadata
  BY DEF Metadata
<1>e. ASSUME NEW x \in Metadata, NEW t \in -1 .. ResetCap
      PROVE  [x EXCEPT !.tolerance = t] \in Metadata
  BY DEF Metadata
<1>f. ASSUME NEW x \in Metadata, NEW t \in Policy
      PROVE  [x EXCEPT !.policy = t] \in Metadata
  BY DEF Metadata
<1>t. TRUE \in BOOLEAN /\ FALSE \in BOOLEAN
  BY Zenon
<1>2. RolledBack(m) \in Metadata
  <2> DEFINE m1 == [m EXCEPT !.active = APP_SLOT_OTHER(m.active)]
             m2 == [m1 EXCEPT !.trial = FALSE]
  <2>1. m1 \in Metadata
    BY <1>1, <1>a
  <2>2. m2 \in Metadata
    BY <2>1, <1>t, <1>b, Zenon
  <2>3. RolledBack(m) = [m2 EXCEPT !.boots = 0]
    BY Zenon DEF RolledBack
  <2> HIDE DEF m2
  <2> QED BY <2>2, <2>3, <1>c
<1>3. TrialResolved(m) \in Metadata
  BY <1>2 DEF TrialResolved, TrialExpired, Metadata
<1>4. Counted(m) \in Metadata
  BY DEF Counted, Metadata
<1>5. [m EXCEPT !.resets = 0] \in Metadata
  BY DEF Metadata
<1>6. [m EXCEPT !.trial = FALSE, !.boots = 0, !.resets = 0] \in Metadata
  <2> DEFINE m1 == [m EXCEPT !.trial = FALSE]
             m2 == [m1 EXCEPT !.boots = 0]
  <2>1. m1 \in Metadata
    BY <1>t, <1>b, Zenon
  <2>2. m2 \in Metadata
    BY <2>1, <1>c, Zenon
  <2>3. [m2 EXCEPT !.resets = 0] \in Metadata
    BY <2>2, <1>d, Zenon
  <2> QED BY <2>3, Zenon
<1>7. [m EXCEPT !.active = APP_SLOT_OTHER(m.active), !.trial = TRUE, !.boots = 0]
        \in Metadata
  <2> DEFINE m1 == [m EXCEPT !.active = APP_SLOT_OTHER(m.active)]
             m2 == [m1 EXCEPT !.trial = TRUE]
  <2>1. m1 \in Metadata
    BY <1>1, <1>a
  <2>2. m2 \in Metadata
    BY <2>1, <1>t, <1>b, Zenon
  <2>3. [m2 EXCEPT !.boots = 0] \in Metadata
    BY <2>2, <1>c, Zenon
  <2> QED BY <2>3, Zenon
<1>8. ASSUME NEW c \in Configs
      PROVE  [m EXCEPT !.tolerance = c.tolerance, !.policy = c.policy] \in Metadata
  <2> DEFINE m1 == [m EXCEPT !.tolerance = c.tolerance]
  <2>1. c.tolerance \in -1 .. ResetCap /\ c.policy \in Policy
    BY <1>8
  <2>2. m1 \in Metadata
    BY <2>1, <1>e, Zenon
  <2>3. [m1 EXCEPT !.policy = c.policy] \in Metadata
    BY <2>1, <2>2, <1>f, Zenon
  <2> QED BY <2>3, Zenon
<1> QED BY <1>1, <1>2, <1>3, <1>4, <1>5, <1>6, <1>7, <1>8

\* Whatever a write leaves in a region has the type of its content.
LEMMA WriteTypes ==
  ASSUME NEW r \in Content, NEW i \in Image \cup {NoImage}
  PROVE  /\ i \in Image => HeaderWrites(r, i) \subseteq Content
         /\ \A at, right \in SUBSET (Nat \ {0}) : SectorWrites(r, i, at, right) \subseteq Content
<1>1. ASSUME i \in Image PROVE HeaderWrites(r, i) \subseteq Content
  BY <1>1, ValueTypes DEF HeaderWrites, Content
<1>2. ASSUME NEW at \in SUBSET (Nat \ {0}), NEW right \in SUBSET (Nat \ {0})
      PROVE SectorWrites(r, i, at, right) \subseteq Content
  BY DEF SectorWrites, Content
<1> QED BY <1>1, <1>2

\* What the metadata sector is read as.
LEMMA ReadFacts ==
  /\ \A x \in Metadata : wdt_meta_read(x) = x
  /\ wdt_meta_read(Torn) = wdt_meta_defaults
  /\ wdt_meta_defaults.trial = FALSE
  /\ wdt_meta_defaults.boots = 0
  /\ wdt_meta_defaults.active = "A"
BY TornAssumption DEF wdt_meta_read, wdt_meta_defaults

\* The histories are not confused by a slot that does not exist.
LEMMA SlotFacts ==
  /\ NoSlot \notin AppSlot
  /\ \A x \in AppSlot : x # NoSlot
  /\ \A m \in Metadata : m.active \in AppSlot /\ m.active # NoSlot /\ m.boots \in Nat
BY BootAssumption DEF NoSlot, AppSlot, Metadata

\* A write of the metadata that is cut short leaves metadata that count right.
LEMMA CutShortInv ==
  ASSUME Inv, CutShort, pc' \in {"bootstrap", "init"}, meta'.boots < MaxAttempts
  PROVE  /\ sector' \in Metadata \cup {Torn}
         /\ fresh' \in AppSlot \cup {NoSlot} /\ tries' \in Nat /\ torn' \in BOOLEAN
         /\ TrialInv'
<1>t. /\ fresh \in AppSlot \cup {NoSlot} /\ tries \in Nat /\ torn \in BOOLEAN
      /\ meta \in Metadata /\ sector \in Metadata \cup {Torn}
  BY DEF Inv, TypeOK
<1>p. pc' \notin Updating \cup {"init_write", "dfu_write", "load", "config_write", "commit_write"}
  BY DEF Updating
<1>2. CASE sector' = sector /\ UNCHANGED trial
  <2>1. fresh' = fresh /\ tries' = tries /\ torn' = torn
    BY <1>2 DEF trial
  <2>2. Followed' => Followed /\ FollowedInv
    BY <2>1 DEF Followed, Inv, TrialInv
  <2>3. Followed' => FollowedInv'
    BY <2>1, <2>2, <1>2, <1>p DEF FollowedInv
  <2>4. wdt_meta_read(sector').boots < MaxAttempts /\ (fresh' = NoSlot => tries' = 0)
    BY <2>1, <1>2 DEF Inv, TrialInv
  <2> QED BY <1>2, <1>t, <1>p, <2>1, <2>3, <2>4 DEF TrialInv
<1>3. CASE pc \in Writing /\ sector' = Torn /\ TornInWrite
  <2>1. /\ wdt_meta_read(sector').boots < MaxAttempts
        /\ fresh' = NoSlot => tries' = 0
        /\ fresh' \in AppSlot \cup {NoSlot} /\ tries' \in Nat
    BY <1>3, <1>t, ReadFacts, SlotFacts, BootAssumption
       DEF TornInWrite, Follow, Inv, TrialInv
  <2>2. torn' \in BOOLEAN
    BY <1>3, Zenon DEF TornInWrite, Follow
  <2>3. Followed' => fresh' = "B" /\ tries' <= MaxAttempts
    <3>1. CASE pc = "commit_write"
      BY <1>3, <3>1, BootAssumption DEF TornInWrite, Follow, Followed
    <3>2. CASE pc # "commit_write"
      <4>1. fresh' = fresh /\ tries' = tries /\ torn' = (fresh # NoSlot)
        BY <1>3, <3>2 DEF TornInWrite
      <4>2. Followed' => fresh = "B"
        BY <4>1 DEF Followed
      <4>3. fresh = "B" => Followed
        BY DEF Followed, NoSlot
      <4> QED BY <4>1, <4>2, <4>3 DEF Inv, TrialInv, FollowedInv
    <3> QED BY <3>1, <3>2
  <2>4. Followed' => FollowedInv'
    BY <2>3, <1>3, <1>p DEF FollowedInv
  <2> QED BY <1>3, <1>p, <2>1, <2>2, <2>4 DEF TrialInv
<1> QED BY <1>2, <1>3 DEF CutShort

\* Flags that survive a reset, or do not.
LEMMA FlagsSurvive ==
  ASSUME Inv, NEW f \in Survives(flags)
  PROVE  f \in Flags /\ (~ f.cold => f.dfu)
<1>1. ColdFlags \in Flags /\ ColdFlags.cold
  BY ValueTypes DEF ColdFlags
<1>2. flags \in Flags /\ (~ flags.cold => flags.dfu)
  BY DEF Inv, TypeOK, FlagsInv
<1>3. f = flags \/ f = ColdFlags
  BY DEF Survives
<1> QED BY <1>1, <1>2, <1>3

\* A reset keeps the invariant.
LEMMA ResetInv ==
  ASSUME Inv, NEW f \in Flags, ~ f.cold => f.dfu, Reset(f), flash' \in [Region -> Content]
  PROVE  Inv'
<1>0. pc' = "bootstrap" /\ CutShort /\ meta' = wdt_meta_defaults
  BY DEF Reset
<1>c. /\ sector' \in Metadata \cup {Torn}
      /\ fresh' \in AppSlot \cup {NoSlot} /\ tries' \in Nat /\ torn' \in BOOLEAN
      /\ TrialInv'
  <2>1. meta'.boots < MaxAttempts
    BY <1>0, ReadFacts, BootAssumption
  <2> QED BY <1>0, <2>1, CutShortInv
<1>1. TypeOK'
  <2>1. armed' \in BOOLEAN /\ saved' \in BOOLEAN
    BY Zenon DEF Reset
  <2>2. retries' \in 0 .. Retries
    BY BootAssumption DEF Reset
  <2>3. pc' \in Label
    BY DEF Reset, Label
  <2> QED BY <2>1, <2>2, <2>3, <1>c, ValueTypes DEF Reset, TypeOK
<1>2. SessionInv'
  BY BootAssumption DEF Reset, SessionInv, NoSession
<1>3. FlagsInv' /\ ValidInv' /\ SyncInv'
  BY DEF Reset, FlagsInv, ValidInv, SyncInv, Updating, InApp
<1> QED BY <1>1, <1>2, <1>3, <1>c DEF Inv

\* An update session that ends without a commit keeps the invariant.
LEMMA AbortInv ==
  ASSUME Inv, pc \in {"session", "verify"}, Aborted,
         UNCHANGED <<flash, sector, flags, meta, armed, loaded, history>>
  PROVE  Inv'
<1>p. pc' \in {"exec", "trigger"}
  BY DEF Aborted
<1>1. TypeOK'
  <2>1. retries' \in 0 .. Retries
    BY BootAssumption DEF Aborted, Inv, TypeOK
  <2>2. pc' \in Label
    BY <1>p DEF Label
  <2> QED BY <2>1, <2>2, ValueTypes DEF Aborted, Inv, TypeOK, history, trial
<1>2. SessionInv'
  BY <1>p, BootAssumption DEF Aborted, SessionInv, NoSession
<1>3. FlagsInv' /\ ValidInv' /\ SyncInv' /\ TrialInv'
  BY <1>p DEF Inv, FlagsInv, ValidInv, SyncInv, TrialInv, Followed, FollowedInv, Updating,
              InApp, history, trial
<1> QED BY <1>1, <1>2, <1>3 DEF Inv

\* What a write of the metadata does to the histories, whether it succeeds or not.
LEMMA WriteHistory ==
  ASSUME Inv, NEW from \in Writing, NEW to, wdt_meta_write(from, to)
  PROVE  /\ sector' \in Metadata \cup {Torn}
         /\ fresh' \in AppSlot \cup {NoSlot} /\ tries' \in Nat /\ torn' \in BOOLEAN
         /\ saved' \in BOOLEAN
         /\ wdt_meta_read(sector').boots < MaxAttempts
         /\ fresh' = NoSlot => tries' = 0
         /\ Followed' =>
              /\ sector' = meta
              /\ \/ from = "commit_write" /\ fresh' = meta.active /\ tries' = 0
                 \/ /\ from \notin {"commit_write", "confirm_write"}
                    /\ meta.active = fresh /\ UNCHANGED trial /\ Followed /\ FollowedInv
<1>t. /\ fresh \in AppSlot \cup {NoSlot} /\ tries \in Nat /\ torn \in BOOLEAN
      /\ meta \in Metadata /\ sector \in Metadata \cup {Torn} /\ meta.active \in AppSlot
      /\ meta.boots < MaxAttempts /\ wdt_meta_read(sector).boots < MaxAttempts
      /\ fresh = NoSlot => tries = 0
  BY SlotFacts DEF Inv, TypeOK, TrialInv
<1>s. saved' \in BOOLEAN
  BY Zenon DEF wdt_meta_write
<1>f. pc = from
  BY DEF wdt_meta_write
<1>1. CASE sector' = meta /\ Recorded
  <2>1. wdt_meta_read(sector').boots < MaxAttempts
    BY <1>1, <1>t, ReadFacts
  <2>2. CASE pc = "commit_write"
    <3>1. fresh' = meta.active /\ tries' = 0 /\ torn' = FALSE
      BY <1>1, <2>2 DEF Recorded, Follow
    <3> QED BY <1>1, <1>f, <1>s, <1>t, <2>1, <2>2, <3>1
  <2>3. CASE pc # "commit_write" /\ (pc = "confirm_write" \/ meta.active # fresh)
    <3>1. fresh' = NoSlot /\ tries' = 0 /\ torn' = FALSE
      BY <1>1, <2>3 DEF Recorded, Unfollow, Follow
    <3> QED BY <1>1, <1>s, <1>t, <2>1, <3>1 DEF Followed
  <2>4. CASE pc \notin {"commit_write", "confirm_write"} /\ meta.active = fresh
    <3>1. UNCHANGED trial
      BY <1>1, <2>4 DEF Recorded
    <3>2. fresh' = fresh /\ tries' = tries /\ torn' = torn
      BY <3>1 DEF trial
    <3>3. Followed' => Followed /\ FollowedInv
      BY <3>2 DEF Followed, Inv, TrialInv
    <3> QED BY <1>1, <1>f, <1>s, <1>t, <2>1, <2>4, <3>1, <3>2, <3>3
  <2> QED BY <2>2, <2>3, <2>4
<1>2. CASE sector' \in {sector, Torn} /\ Unfollow
  <2>1. fresh' = NoSlot /\ tries' = 0 /\ torn' = FALSE
    BY <1>2 DEF Unfollow, Follow
  <2>2. wdt_meta_read(sector').boots < MaxAttempts
    BY <1>2, <1>t, ReadFacts, BootAssumption
  <2> QED BY <1>2, <1>s, <1>t, <2>1, <2>2 DEF Followed
<1> QED BY <1>1, <1>2 DEF wdt_meta_write

\* Writing the metadata keeps the invariant.
LEMMA WriteInv ==
  ASSUME Inv, NEW from \in Writing \ {"commit_write"}, NEW to \in {"exec", "load", "app"},
         wdt_meta_write(from, to), UNCHANGED <<flags, meta>>,
         \/ from = "init_write" /\ to = "exec"
         \/ from = "dfu_write" /\ to = "load"
         \/ from \in {"config_write", "confirm_write"} /\ to = "app"
  PROVE  Inv'
<1>p. /\ pc = from /\ pc' = to /\ meta \in Metadata /\ wdt_meta_read(meta) = meta
      /\ meta # Torn /\ meta.boots \in Nat
      /\ UNCHANGED <<flash, session, retries, armed, loaded>>
      /\ saved' = (from = "init_write" => sector' = meta)
  BY ReadFacts, SlotFacts, TornAssumption DEF wdt_meta_write, Inv, TypeOK
<1>w. from \in Writing
  OBVIOUS
<1>1. TypeOK'
  BY <1>p, <1>w, WriteHistory DEF Inv, TypeOK, Label, InApp
<1>2. SessionInv' /\ FlagsInv'
  BY <1>p DEF Inv, SessionInv, FlagsInv, Writing
<1>3. ValidInv'
  BY <1>p DEF Inv, ValidInv, Updating, InApp
<1>4. SyncInv'
  BY <1>p DEF SyncInv, Updating
<1>5. TrialInv'
  <2>1. ASSUME Followed' PROVE FollowedInv'
    <3>1. /\ sector' = meta /\ meta.active = fresh /\ fresh' = fresh /\ tries' = tries
          /\ Followed /\ FollowedInv /\ from # "confirm_write"
      BY <1>w, <2>1, WriteHistory DEF trial
    <3>2. meta.trial /\ tries <= meta.boots + 1 /\ (to # "app" => tries <= meta.boots)
      <4>1. CASE from = "init_write"
        BY <4>1, <1>p, <3>1 DEF FollowedInv, Inv, TypeOK
      <4>2. CASE from = "dfu_write"
        BY <4>2, <1>p, <3>1 DEF FollowedInv, Inv, TypeOK
      <4>3. CASE from = "config_write"
        BY <4>3, <1>p, <3>1 DEF FollowedInv
      <4> QED BY <4>1, <4>2, <4>3, <3>1 DEF Writing
    <3>3. sector' # Torn /\ wdt_meta_read(sector') = meta /\ meta' = meta /\ pc' = to
      BY <1>p, <3>1
    <3> QED BY <3>1, <3>2, <3>3 DEF FollowedInv, Updating
  <2> QED BY <2>1, <1>p, <1>w, WriteHistory DEF Inv, TrialInv
<1> QED BY <1>1, <1>2, <1>3, <1>4, <1>5 DEF Inv

\* What bootloader_init makes of the metadata: a trial that goes on has been
\* counted and has attempts left, one that has none left is over.
LEMMA ResolvedMeta ==
  ASSUME NEW m0 \in Metadata, m0.boots < MaxAttempts
  PROVE  LET m == Counted(TrialResolved(m0))
         IN  /\ m \in Metadata
             /\ m.boots < MaxAttempts
             /\ TrialExpired(m0) => m.active # m0.active
             /\ ~ TrialExpired(m0) =>
                  /\ m.active = m0.active /\ m.trial = m0.trial
                  /\ m0.trial => m.boots = m0.boots + 1
<1> DEFINE m1 == TrialResolved(m0)
<1>1. m1 \in Metadata
  BY MetaTypes
<1>2. Counted(m1) \in Metadata
  BY <1>1, MetaTypes
<1>3. /\ m1.boots < MaxAttempts
      /\ TrialExpired(m0) => m1.active # m0.active
      /\ ~ TrialExpired(m0) =>
           /\ m1.active = m0.active /\ m1.trial = m0.trial
           /\ m0.trial => m1.boots = m0.boots + 1
  <2>1. CASE TrialExpired(m0)
    <3>1. m1.boots = 0 /\ m1.active = APP_SLOT_OTHER(m0.active)
      BY <2>1 DEF TrialResolved, RolledBack, Metadata
    <3>2. APP_SLOT_OTHER(m0.active) # m0.active
      BY DEF APP_SLOT_OTHER, Metadata, AppSlot
    <3> QED BY <2>1, <3>1, <3>2, BootAssumption
  <2>2. CASE ~ TrialExpired(m0) /\ m0.trial
    <3>1. m1 = [m0 EXCEPT !.boots = @ + 1]
      BY <2>2 DEF TrialResolved
    <3>2. m1.boots = m0.boots + 1 /\ m1.active = m0.active /\ m1.trial = m0.trial
      BY <3>1 DEF Metadata
    <3> QED BY <2>2, <3>2, BootAssumption DEF TrialExpired, Metadata
  <2>3. CASE ~ TrialExpired(m0) /\ ~ m0.trial
    BY <2>3 DEF TrialResolved
  <2> QED BY <2>1, <2>2, <2>3
<1> HIDE DEF m1
<1>4. /\ Counted(m1).boots = m1.boots /\ Counted(m1).trial = m1.trial
      /\ Counted(m1).active = m1.active
  BY <1>1 DEF Counted, Metadata
<1> QED BY <1>2, <1>3, <1>4 DEF m1

\* A rolled-back slot is not on trial.
LEMMA RolledBackFacts ==
  ASSUME NEW m \in Metadata
  PROVE  /\ [RolledBack(m) EXCEPT !.resets = 0] \in Metadata
         /\ [RolledBack(m) EXCEPT !.resets = 0].trial = FALSE
         /\ [RolledBack(m) EXCEPT !.resets = 0].boots = 0
<1>1. RolledBack(m) \in Metadata
  BY MetaTypes
<1>2. [RolledBack(m) EXCEPT !.resets = 0] \in Metadata
  BY <1>1, MetaTypes
<1>3. RolledBack(m).trial = FALSE /\ RolledBack(m).boots = 0
  BY DEF RolledBack, Metadata
<1> QED BY <1>1, <1>2, <1>3 DEF Metadata

\* bootloader_init keeps the invariant: trials are counted before they are
\* started, and what a cold boot trusts has been validated.
LEMMA BootloaderInitInv ==
  ASSUME Inv, bootloader_init
  PROVE  Inv'
<1> DEFINE f  == boot_flags_init
           m0 == wdt_meta_read(sector)
           m  == Counted(TrialResolved(m0))
           forced     == ToleranceExceeded(m, "FORCE_UPDATE")
           rolledBack == ToleranceExceeded(m, "ROLLBACK")
<1>m. m0 \in Metadata /\ m0.boots < MaxAttempts
  BY ReadType DEF Inv, TypeOK, TrialInv
<1>r. /\ m \in Metadata
      /\ m.boots < MaxAttempts
      /\ TrialExpired(m0) => m.active # m0.active
      /\ ~ TrialExpired(m0) =>
           /\ m.active = m0.active /\ m.trial = m0.trial
           /\ m0.trial => m.boots = m0.boots + 1
  BY <1>m, ResolvedMeta
<1>f. f \in Flags /\ (~ f.cold => f.dfu)
  BY ValueTypes DEF Inv, TypeOK, FlagsInv, boot_flags_init, ColdFlags, Flags
<1>a. /\ meta' = IF rolledBack THEN [RolledBack(m) EXCEPT !.resets = 0]
                 ELSE IF forced THEN [m EXCEPT !.resets = 0]
                 ELSE m
      /\ flags' = [magic |-> TRUE, cold |-> f.cold /\ ~ forced, dfu |-> f.dfu \/ forced,
                   crc_ok |-> IF f.cold \/ TrialExpired(m0) \/ rolledBack
                                THEN Valid(flash[meta'.active]) ELSE f.crc_ok]
  BY DEF bootloader_init
<1>b. pc = "init" /\ pc' = "init_write" /\ retries' = Retries
  BY DEF bootloader_init
<1>c. UNCHANGED <<flash, sector, session, armed, loaded, saved>>
  BY DEF bootloader_init
<1>d. IF rolledBack /\ meta'.active = fresh THEN Unfollow ELSE UNCHANGED trial
  BY DEF bootloader_init
<1> HIDE DEF f, m0, m, forced, rolledBack
<1>1. /\ meta' \in Metadata
      /\ meta'.boots < MaxAttempts
      /\ ~ rolledBack => /\ meta'.active = m.active /\ meta'.trial = m.trial
                         /\ meta'.boots = m.boots
  <2>1. CASE rolledBack
    <3>1. meta' = [RolledBack(m) EXCEPT !.resets = 0]
      BY <2>1, <1>a
    <3>2. meta' \in Metadata /\ meta'.boots = 0
      BY <3>1, <1>r, RolledBackFacts
    <3> QED BY <2>1, <3>2, BootAssumption
  <2>2. CASE ~ rolledBack /\ forced
    <3>1. [m EXCEPT !.resets = 0] \in Metadata
      BY <1>r, MetaTypes
    <3>2. meta' = [m EXCEPT !.resets = 0]
      BY <2>2, <1>a
    <3>3. meta'.boots = m.boots /\ meta'.trial = m.trial /\ meta'.active = m.active
      BY <3>2, <1>r DEF Metadata
    <3> QED BY <3>1, <3>2, <3>3, <1>r
  <2>3. CASE ~ rolledBack /\ ~ forced
    <3>1. meta' = m
      BY <2>3, <1>a
    <3> QED BY <3>1, <1>r
  <2> QED BY <2>1, <2>2, <2>3
<1>h. /\ fresh' \in AppSlot \cup {NoSlot} /\ tries' \in Nat /\ torn' \in BOOLEAN
      /\ fresh' = NoSlot => tries' = 0
      /\ Followed' => /\ Followed /\ FollowedInv /\ fresh' = fresh /\ tries' = tries
                      /\ ~ (rolledBack /\ meta'.active = fresh)
  <2>1. CASE rolledBack /\ meta'.active = fresh
    <3>1. fresh' = NoSlot /\ tries' = 0 /\ torn' = FALSE
      BY <2>1, <1>d DEF Unfollow, Follow
    <3>2. torn' \in BOOLEAN
      BY <3>1, Zenon
    <3> QED BY <3>1, <3>2 DEF Followed
  <2>2. CASE ~ (rolledBack /\ meta'.active = fresh)
    <3>1. fresh' = fresh /\ tries' = tries /\ torn' = torn
      BY <2>2, <1>d DEF trial
    <3> QED BY <2>2, <3>1 DEF Followed, Inv, TypeOK, TrialInv
  <2> QED BY <2>1, <2>2
<1>2. flags' \in Flags /\ (~ flags'.cold => flags'.dfu)
      /\ (~ flags'.dfu /\ flags'.crc_ok => Valid(flash[meta'.active]))
  <2>1. Valid(flash[meta'.active]) \in BOOLEAN
    BY Zenon DEF Valid
  <2>2. forced \in BOOLEAN
    BY Zenon DEF forced, ToleranceExceeded
  <2>4. /\ f.cold \in BOOLEAN /\ f.dfu \in BOOLEAN /\ f.crc_ok \in BOOLEAN
    BY <1>f DEF Flags
  <2>3. flags' \in Flags
    <3>1. (IF f.cold \/ TrialExpired(m0) \/ rolledBack
             THEN Valid(flash[meta'.active]) ELSE f.crc_ok) \in BOOLEAN
      BY <2>1, <2>4, Zenon
    <3>2. (f.cold /\ ~ forced) \in BOOLEAN /\ (f.dfu \/ forced) \in BOOLEAN /\ TRUE \in BOOLEAN
      BY Zenon
    <3> QED BY <3>1, <3>2, <1>a, Zenon DEF Flags
  <2>5. ~ flags'.cold => flags'.dfu
    BY <1>a, <1>f
  <2>6. ~ flags'.dfu /\ flags'.crc_ok => Valid(flash[meta'.active])
    BY <1>a, <1>f
  <2> QED BY <2>3, <2>5, <2>6
<1>3. TypeOK'
  <2>1. retries' \in 0 .. Retries /\ pc' \in Label
    BY <1>b, BootAssumption DEF Label, Writing
  <2> QED BY <2>1, <1>1, <1>2, <1>c, <1>h DEF Inv, TypeOK
<1>4. SessionInv'
  BY <1>b, <1>c, BootAssumption DEF Inv, SessionInv, NoSession
<1>5. FlagsInv' /\ SyncInv'
  BY <1>2, <1>b DEF FlagsInv, SyncInv, Updating
<1>6. ValidInv'
  BY <1>2, <1>b, <1>c DEF ValidInv, InApp
<1>7. TrialInv'
  <2>1. ASSUME Followed', meta'.active = fresh
        PROVE  sector # Torn /\ meta'.trial /\ meta'.boots = m0.boots + 1
    <3>1. Followed /\ FollowedInv /\ ~ rolledBack
      BY <2>1, <1>h
    <3>2. m.active = fresh
      BY <2>1, <3>1, <1>1
    <3>3. CASE sector = Torn
      <4>1. m0.active = "A" /\ m0.trial = FALSE
        BY <3>3, ReadFacts DEF m0
      <4>2. ~ TrialExpired(m0)
        BY <4>1 DEF TrialExpired
      <4>3. m.active = "A"
        BY <4>1, <4>2, <1>r
      <4> QED BY <3>1, <3>2, <3>3, <4>3 DEF FollowedInv
    <3>4. CASE sector # Torn
      <4>1. m0.active = fresh /\ m0.trial
        BY <3>1, <3>4 DEF FollowedInv, m0
      <4>2. ~ TrialExpired(m0)
        BY <4>1, <3>2, <1>r
      <4> QED BY <3>1, <3>4, <4>1, <4>2, <1>1, <1>r
    <3> QED BY <3>3, <3>4
  <2>2. Followed' => FollowedInv'
    <3> SUFFICES ASSUME Followed' PROVE FollowedInv'
      OBVIOUS
    <3>1. Followed /\ FollowedInv /\ fresh' = fresh /\ tries' = tries
      BY <1>h
    <3>2. meta'.active = fresh => sector # Torn /\ meta'.trial
                                    /\ meta'.boots = wdt_meta_read(sector).boots + 1
      BY <2>1 DEF m0
    <3> QED BY <3>1, <3>2, <1>b, <1>c DEF FollowedInv, Updating
  <2> QED BY <2>2, <1>1, <1>b, <1>c, <1>h DEF Inv, TrialInv
<1> QED BY <1>3, <1>4, <1>5, <1>6, <1>7 DEF Inv

\* The steps of a session that write a region other than the active slot, and
\* leave the rest of the persistent state alone, keep the invariant.
LEMMA SessionStepInv ==
  ASSUME Inv, pc = "session", pc' \in {"session", "verify"},
         NEW b \in Region, NEW r \in Content,
         flash' = [flash EXCEPT ![b] = r],
         flash' # flash => b # meta.active,
         session' \in Session, SessionInv',
         UNCHANGED <<sector, flags, meta, retries, armed, loaded, history>>
  PROVE  /\ Inv'
         /\ saved => flash'[wdt_meta_read(sector).active] = flash[wdt_meta_read(sector).active]
<1>1. /\ meta \in Metadata
      /\ meta.active \in Region
      /\ flash \in [Region -> Content]
  BY DEF Inv, TypeOK, Metadata, Region
<1>2. flash' \in [Region -> Content]
  BY <1>1
<1>3. flash'[meta.active] = flash[meta.active]
  BY <1>1
<1>4. saved => wdt_meta_read(sector) = meta
  BY <1>1, ReadFacts DEF Inv, SyncInv, Updating
<1>5. TypeOK'
  BY <1>2 DEF Inv, TypeOK, Label, history, trial
<1>6. FlagsInv' /\ SyncInv'
  BY DEF Inv, FlagsInv, SyncInv, Updating, history
<1>7. ValidInv'
  BY <1>3 DEF Inv, ValidInv, Updating, InApp
<1>8. TrialInv'
  BY DEF Inv, TrialInv, Followed, FollowedInv, Updating, history, trial
<1> QED BY <1>3, <1>4, <1>5, <1>6, <1>7, <1>8 DEF Inv

\* The facts of a session that its steps rest on.
LEMMA SessionFacts ==
  ASSUME Inv
  PROVE  /\ session \in Session
         /\ meta.active \in AppSlot
         /\ flash \in [Region -> Content]
         /\ session.buffered <= session.received
         /\ session.started => session.base # meta.active
         /\ ~ session.started => session.buffered = 0
BY DEF Inv, TypeOK, SessionInv, Metadata

\* A START keeps the invariant and writes its header outside the active slot.
LEMMA DfuStartInv ==
  ASSUME Inv, NEW i \in Image, NEW self \in BOOLEAN, dfu_start(i, self)
  PROVE  /\ Inv'
         /\ saved => flash'[wdt_meta_read(sector).active] = flash[wdt_meta_read(sector).active]
<1>1. DfuBase(self) \in Region /\ DfuBase(self) # meta.active
  BY SessionFacts DEF DfuBase, Region, AppSlot, APP_SLOT_OTHER
<1>2. PICK r \in HeaderWrites(flash[DfuBase(self)], i) :
         flash' = [flash EXCEPT ![DfuBase(self)] = r]
  BY DEF dfu_start
<1>3. r \in Content
  BY <1>1, <1>2, SessionFacts, WriteTypes
<1>4. /\ session'.received = session.received
      /\ session'.buffered = session.buffered
      /\ session'.base = DfuBase(self)
      /\ session'.started = TRUE
      /\ pc = "session" /\ pc' = "session"
      /\ UNCHANGED <<sector, flags, meta, retries, armed, loaded, history>>
  BY SessionFacts DEF dfu_start, Session
<1>5. session' \in Session
  <2> DEFINE s1 == [session EXCEPT !.started = TRUE]
             s2 == [s1 EXCEPT !.self = self]
             s3 == [s2 EXCEPT !.base = DfuBase(self)]
             s4 == [s3 EXCEPT !.image = i]
  <2>1. ASSUME NEW x \in Session, NEW y \in BOOLEAN
        PROVE  [x EXCEPT !.started = y] \in Session /\ [x EXCEPT !.self = y] \in Session
    BY DEF Session
  <2>2. ASSUME NEW x \in Session, NEW y \in Region PROVE [x EXCEPT !.base = y] \in Session
    BY DEF Session
  <2>3. ASSUME NEW x \in Session PROVE [x EXCEPT !.image = i] \in Session
    BY DEF Session
  <2>4. s1 \in Session
    BY <2>1, SessionFacts, Zenon
  <2>5. s2 \in Session
    BY <2>1, <2>4, Zenon
  <2>6. s3 \in Session
    BY <2>2, <2>5, <1>1, Zenon
  <2>7. s4 \in Session
    BY <2>3, <2>6, Zenon
  <2>8. session' = s4
    BY Zenon DEF dfu_start
  <2> HIDE DEF s4
  <2> QED BY <2>7, <2>8
<1>6. SessionInv'
  BY <1>1, <1>4, SessionFacts DEF SessionInv
<1> QED BY <1>1, <1>2, <1>3, <1>4, <1>5, <1>6, SessionStepInv

\* A DATA packet keeps the invariant, full sector or not, and what it writes is
\* outside the active slot.
LEMMA DfuDataInv ==
  ASSUME Inv, NEW n \in 1 .. SectorChunks, NEW damaged \in BOOLEAN, dfu_data(n, damaged)
  PROVE  /\ Inv'
         /\ saved => flash'[wdt_meta_read(sector).active] = flash[wdt_meta_read(sector).active]
<1> DEFINE first == session.received - session.buffered
           total == session.received + n
           new   == session.received + 1 .. total
           right == session.right \cup (IF damaged THEN {} ELSE new)
           at    == first + 1 .. first + SectorChunks
<1>1. /\ pc = "session" /\ pc' = "session"
      /\ session.started
      /\ UNCHANGED <<sector, flags, meta, retries, armed, loaded, history>>
  BY DEF dfu_data
<1>2. session' = [session EXCEPT
           !.received = total,
           !.clean    = @ /\ (damaged => new \cap Chunks(session.image) = {}),
           !.buffered = IF SectorFull(n) THEN @ + n - SectorChunks ELSE @ + n,
           !.right    = IF SectorFull(n) THEN right \ at ELSE right]
  BY DEF dfu_data
<1>3. IF SectorFull(n)
        THEN \E r \in SectorWrites(flash[session.base], session.image, at, right \cap at) :
               flash' = [flash EXCEPT ![session.base] = r]
        ELSE flash' = flash
  BY DEF dfu_data
<1>4. /\ session.received \in Nat
      /\ session.buffered \in 0 .. SectorChunks - 1
      /\ session.base \in Region
      /\ session.image \in Image \cup {NoImage}
      /\ session.right \in SUBSET (Nat \ {0})
  BY SessionFacts DEF Session
<1>5. /\ first \in Nat /\ total \in Nat
      /\ new \in SUBSET (Nat \ {0}) /\ at \in SUBSET (Nat \ {0})
  BY <1>4, SessionFacts, BootAssumption
<1>6. right \in SUBSET (Nat \ {0})
  BY <1>4, <1>5
<1>7. /\ (IF SectorFull(n) THEN session.buffered + n - SectorChunks ELSE session.buffered + n)
           \in 0 .. SectorChunks - 1
      /\ (IF SectorFull(n) THEN session.buffered + n - SectorChunks ELSE session.buffered + n)
           <= total
  BY <1>4, SessionFacts, BootAssumption DEF SectorFull
<1>8. /\ session'.received = total
      /\ session'.buffered = IF SectorFull(n) THEN session.buffered + n - SectorChunks
                                              ELSE session.buffered + n
      /\ session'.base = session.base
      /\ session'.started = session.started
  BY <1>2, SessionFacts DEF Session
<1>9. session' \in Session
  <2> DEFINE c  == session.clean /\ (damaged => new \cap Chunks(session.image) = {})
             bu == IF SectorFull(n) THEN session.buffered + n - SectorChunks
                                    ELSE session.buffered + n
             ri == IF SectorFull(n) THEN right \ at ELSE right
  <2>1. c \in BOOLEAN
    BY Zenon
  <2>2. bu \in 0 .. SectorChunks - 1 /\ ri \in SUBSET (Nat \ {0})
    BY <1>6, <1>7
  <2>3. session' = [session EXCEPT !.received = total, !.clean = c, !.buffered = bu, !.right = ri]
    BY <1>2, Zenon
  <2> HIDE DEF c, bu, ri, total
  <2>4. ASSUME NEW x \in Session, NEW y \in Nat PROVE [x EXCEPT !.received = y] \in Session
    BY DEF Session
  <2>5. ASSUME NEW x \in Session, NEW y \in BOOLEAN PROVE [x EXCEPT !.clean = y] \in Session
    BY DEF Session
  <2>6. ASSUME NEW x \in Session, NEW y \in 0 .. SectorChunks - 1
        PROVE  [x EXCEPT !.buffered = y] \in Session
    BY DEF Session
  <2>7. ASSUME NEW x \in Session, NEW y \in SUBSET (Nat \ {0})
        PROVE  [x EXCEPT !.right = y] \in Session
    BY DEF Session
  <2>8. [session EXCEPT !.received = total, !.clean = c] \in Session
    BY <2>4, <2>5, <2>1, <1>5, SessionFacts, Zenon
  <2>9. [session EXCEPT !.received = total, !.clean = c, !.buffered = bu] \in Session
    BY <2>8, <2>6, <2>2, Zenon
  <2>10. [session EXCEPT !.received = total, !.clean = c, !.buffered = bu, !.right = ri] \in Session
    BY <2>9, <2>7, <2>2, Zenon
  <2> QED BY <2>3, <2>10, Zenon
<1>10. \E r \in Content : flash' = [flash EXCEPT ![session.base] = r]
  <2>1. CASE SectorFull(n)
    <3>1. right \cap at \in SUBSET (Nat \ {0})
      BY <1>6
    <3>2. SectorWrites(flash[session.base], session.image, at, right \cap at) \subseteq Content
      BY <1>4, <1>5, <3>1, SessionFacts, WriteTypes
    <3> QED BY <2>1, <1>3, <3>2
  <2>2. CASE ~ SectorFull(n)
    <3>1. flash' = [flash EXCEPT ![session.base] = flash[session.base]]
      BY <2>2, <1>3, <1>4, SessionFacts
    <3> QED BY <3>1, <1>4, SessionFacts
  <2> QED BY <2>1, <2>2
<1> HIDE DEF first, total, new, right, at
<1>11. SessionInv'
  BY <1>1, <1>7, <1>8, SessionFacts DEF SessionInv
<1>12. session.base # meta.active
  BY <1>1, SessionFacts
<1> QED BY <1>1, <1>4, <1>9, <1>10, <1>11, <1>12, SessionStepInv

\* The flush at the end of a session keeps the invariant, for an application as
\* for a bootloader, with a START or without.
LEMMA DfuFinishInv ==
  ASSUME Inv, dfu_finish
  PROVE  /\ Inv'
         /\ saved => flash'[wdt_meta_read(sector).active] = flash[wdt_meta_read(sector).active]
<1>1. PICK r \in Flushed : flash' = [flash EXCEPT ![session.base] = r]
  BY DEF dfu_finish
<1>2. /\ session.received \in Nat
      /\ session.buffered \in 0 .. SectorChunks - 1
      /\ session.base \in Region
      /\ session.image \in Image \cup {NoImage}
      /\ session.right \in SUBSET (Nat \ {0})
      /\ pc = "session"
  BY SessionFacts DEF Session, dfu_finish
<1>3. r \in Content
  <2>1. CASE session.buffered = 0
    BY <2>1, <1>1, <1>2, SessionFacts DEF Flushed
  <2>2. CASE session.buffered # 0
    <3> DEFINE first == session.received - session.buffered
               at == first + 1 .. first + SectorChunks
    <3>1. at \in SUBSET (Nat \ {0})
      BY <1>2, SessionFacts, BootAssumption
    <3>2. r \in SectorWrites(flash[session.base], session.image, at, session.right)
      BY <2>2, <1>1 DEF Flushed
    <3> HIDE DEF at
    <3> QED BY <3>1, <3>2, <1>2, SessionFacts, WriteTypes
  <2> QED BY <2>1, <2>2
<1>4. flash' # flash => session.base # meta.active
  <2>1. CASE session.started
    BY <2>1, SessionFacts
  <2>2. CASE ~ session.started
    <3>1. r = flash[session.base]
      BY <2>2, <1>1, SessionFacts DEF Flushed
    <3> QED BY <3>1, <1>1, <1>2, SessionFacts
  <2> QED BY <2>1, <2>2
<1>5. flash' \in [Region -> Content]
  BY <1>1, <1>3, SessionFacts
<1>6. CASE session.self
  <2>1. PICK f \in Survives(flags) : Reset(f)
    BY <1>6 DEF dfu_finish
  <2>2. f \in Flags /\ (~ f.cold => f.dfu)
    BY <2>1, FlagsSurvive
  <2>3. Inv'
    BY <2>1, <2>2, <1>5, ResetInv
  <2>4. saved => wdt_meta_read(sector) = meta
    BY <1>2, ReadFacts DEF Inv, TypeOK, SyncInv, Updating
  <2>5. meta.active \in Region
    BY SessionFacts DEF Region
  <2>6. flash'[meta.active] = flash[meta.active]
    BY <2>5, <1>1, <1>4, SessionFacts
  <2> QED BY <2>3, <2>4, <2>6
<1>7. CASE ~ session.self
  <2>1. pc' = "verify" /\ UNCHANGED <<sector, flags, meta, session, retries, armed, loaded, history>>
    BY <1>7 DEF dfu_finish
  <2>2. session' \in Session /\ SessionInv'
    BY <2>1, SessionFacts DEF SessionInv
  <2> QED BY <1>1, <1>2, <1>3, <1>4, <2>1, <2>2, SessionStepInv
<1> QED BY <1>6, <1>7

\* A commit makes active only what has been read back.
LEMMA DfuVerifyInv ==
  ASSUME Inv, dfu_verify
  PROVE  Inv'
<1> DEFINE new == APP_SLOT_OTHER(meta.active)
<1>1. pc = "verify" /\ UNCHANGED <<flash, sector, flags, armed, loaded, history>>
  BY DEF dfu_verify
<1>2. CASE ~ Committable(new)
  BY <1>1, <1>2, AbortInv DEF dfu_verify
<1>3. CASE Committable(new)
  <2>1. /\ meta' = [meta EXCEPT !.active = new, !.trial = TRUE, !.boots = 0]
        /\ pc' = "commit_write"
        /\ session' = NoSession
        /\ retries' = retries
    BY <1>3 DEF dfu_verify
  <2>2. meta \in Metadata
    BY DEF Inv, TypeOK
  <2>3. meta' \in Metadata
    BY <2>1, <2>2, MetaTypes
  <2>4. meta'.active = new /\ meta'.boots = 0 /\ meta'.trial
    BY <2>1, <2>2 DEF Metadata
  <2>5. Valid(flash'[meta'.active])
    BY <1>1, <1>3, <2>4 DEF Committable
  <2>6. TypeOK'
    <3>1. pc' \in Label
      BY <2>1 DEF Label, Writing
    <3> QED BY <1>1, <2>1, <2>3, <3>1, ValueTypes DEF Inv, TypeOK, history, trial
  <2>7. SessionInv'
    BY <2>1, BootAssumption DEF SessionInv, NoSession
  <2>8. FlagsInv' /\ SyncInv' /\ ValidInv'
    BY <1>1, <2>1, <2>5 DEF Inv, FlagsInv, SyncInv, ValidInv, Updating, InApp
  <2>9. TrialInv'
    <3>1. fresh' = fresh /\ tries' = tries /\ torn' = torn
      BY <1>1 DEF history, trial
    <3>2. Followed' => FollowedInv'
      BY <1>1, <2>1, <3>1 DEF Inv, TrialInv, Followed, FollowedInv, Updating
    <3> QED BY <1>1, <2>1, <2>4, <3>1, <3>2, BootAssumption DEF Inv, TrialInv
  <2> QED BY <2>6, <2>7, <2>8, <2>9 DEF Inv
<1> QED BY <1>2, <1>3

\* The commit of an update starts a fresh trial.
LEMMA CommitInv ==
  ASSUME Inv, commit_written
  PROVE  Inv'
<1>1. /\ pc = "commit_write" /\ pc' = "dfu_write"
      /\ flags' = [flags EXCEPT !.crc_ok = TRUE]
      /\ meta' = [meta EXCEPT !.resets = 0]
      /\ wdt_meta_write("commit_write", "dfu_write")
      /\ UNCHANGED <<flash, session, retries, armed, loaded>>
  BY DEF commit_written, wdt_meta_write
<1>2. meta \in Metadata /\ flags \in Flags /\ wdt_meta_read(meta) = meta /\ meta # Torn
  BY ReadFacts, TornAssumption DEF Inv, TypeOK
<1>3. meta' \in Metadata
  BY <1>1, <1>2, MetaTypes
<1>4. /\ meta'.active = meta.active /\ meta'.boots = meta.boots /\ meta'.trial = meta.trial
      /\ meta.boots \in Nat
  BY <1>1, <1>2, SlotFacts DEF Metadata
<1>5. flags' \in Flags /\ (~ flags'.cold => flags'.dfu)
  BY <1>1, <1>2 DEF Flags, Inv, FlagsInv
<1>w. "commit_write" \in Writing
  BY DEF Writing
<1>6. TypeOK'
  <2>1. pc' \in Label
    BY <1>1 DEF Label, Writing
  <2> QED BY <1>1, <1>2, <1>3, <1>5, <1>w, <2>1, WriteHistory DEF Inv, TypeOK
<1>7. SessionInv' /\ FlagsInv' /\ SyncInv'
  BY <1>1, <1>4, <1>5, BootAssumption
     DEF Inv, SessionInv, NoSession, FlagsInv, SyncInv, Updating
<1>8. ValidInv'
  BY <1>1, <1>4 DEF Inv, ValidInv, Updating, InApp
<1>9. TrialInv'
  <2>1. ASSUME Followed' PROVE FollowedInv'
    <3>1. sector' = meta /\ fresh' = meta.active /\ tries' = 0
      BY <1>1, <1>w, <2>1, WriteHistory
    <3>2. meta.trial
      BY <1>1 DEF Inv, TrialInv
    <3> QED BY <1>1, <1>2, <1>4, <3>1, <3>2, BootAssumption DEF FollowedInv, Updating
  <2> QED BY <1>1, <1>4, <1>w, <2>1, WriteHistory DEF Inv, TrialInv
<1> QED BY <1>6, <1>7, <1>8, <1>9 DEF Inv

\* The start of an application keeps the invariant: it is whole, and counted.
LEMMA BootAppInv ==
  ASSUME Inv, boot_app
  PROVE  Inv'
<1>1. /\ pc = "load" /\ pc' = "app" /\ saved' = TRUE
      /\ loaded' = flash[meta.active]
      /\ tries' = IF meta.active = fresh /\ tries <= MaxAttempts THEN tries + 1 ELSE tries
      /\ UNCHANGED <<flash, sector, flags, meta, session, retries, armed, fresh, torn>>
  BY DEF boot_app
<1>2. /\ meta \in Metadata /\ meta.active \in Region /\ meta.active # NoSlot
      /\ sector \in Metadata \cup {Torn}
      /\ flash[meta.active] \in Content
      /\ Valid(flash[meta.active])
      /\ tries \in Nat
  BY <1>1, SlotFacts DEF Inv, TypeOK, Region, ValidInv
<1>3. TypeOK'
  <2>1. pc' \in Label /\ tries' \in Nat
    BY <1>1, <1>2 DEF Label, InApp
  <2>2. saved' \in BOOLEAN
    BY <1>1, Zenon
  <2> QED BY <1>1, <1>2, <2>1, <2>2 DEF Inv, TypeOK
<1>4. SessionInv' /\ FlagsInv' /\ SyncInv'
  BY <1>1, BootAssumption DEF Inv, SessionInv, NoSession, FlagsInv, SyncInv, Updating
<1>5. ValidInv'
  BY <1>1, <1>2 DEF ValidInv, Updating, InApp
<1>6. TrialInv'
  <2>1. fresh' = NoSlot => tries' = 0
    BY <1>1, <1>2 DEF Inv, TrialInv
  <2>2. ASSUME Followed' PROVE FollowedInv'
    <3>1. Followed /\ FollowedInv
      BY <1>1, <2>2 DEF Followed, Inv, TrialInv
    <3>2. wdt_meta_read(sector).boots \in Nat /\ wdt_meta_read(sector).boots < MaxAttempts
      BY <1>2, ReadType, SlotFacts DEF Inv, TrialInv
    <3>3. CASE meta.active = fresh
      <4>1. sector # Torn /\ tries <= wdt_meta_read(sector).boots
        BY <1>1, <3>1, <3>3 DEF FollowedInv
      <4>2. tries' = tries + 1
        BY <1>1, <3>1, <3>3 DEF FollowedInv
      <4> QED BY <1>1, <1>2, <3>1, <3>2, <4>1, <4>2, BootAssumption DEF FollowedInv, Updating
    <3>4. CASE meta.active # fresh
      BY <1>1, <3>1, <3>4 DEF FollowedInv, Updating
    <3> QED BY <3>3, <3>4
  <2> QED BY <1>1, <2>1, <2>2 DEF Inv, TrialInv
<1> QED BY <1>3, <1>4, <1>5, <1>6 DEF Inv

\* Recording the reset policy leaves the trial as it was.
LEMMA WatchdogInitInv ==
  ASSUME Inv, NEW config \in Configs, watchdog_init(config)
  PROVE  Inv'
<1> DEFINE m == wdt_meta_read(sector)
<1>1. /\ pc = "app" /\ pc' = "config_write" /\ armed' = TRUE
      /\ meta' = [m EXCEPT !.tolerance = config.tolerance, !.policy = config.policy]
      /\ UNCHANGED <<flash, sector, flags, session, retries, loaded, history>>
  BY DEF watchdog_init
<1>2. m \in Metadata
  BY ReadType DEF Inv, TypeOK
<1>3. meta' \in Metadata
  BY <1>1, <1>2, MetaTypes
<1>4. meta'.boots = m.boots /\ meta'.trial = m.trial /\ meta'.active = m.active
  BY <1>1, <1>2 DEF Metadata
<1>h. fresh' = fresh /\ tries' = tries /\ torn' = torn /\ saved' = saved
  BY <1>1 DEF history, trial
<1>5. TypeOK'
  <2>1. pc' \in Label
    BY <1>1 DEF Label, Writing
  <2>2. armed' \in BOOLEAN
    BY <1>1, Zenon
  <2> QED BY <1>1, <1>3, <1>h, <2>1, <2>2 DEF Inv, TypeOK
<1>6. SessionInv' /\ FlagsInv' /\ SyncInv' /\ ValidInv'
  BY <1>1, BootAssumption
     DEF Inv, SessionInv, NoSession, FlagsInv, SyncInv, ValidInv, Updating, InApp
<1>7. TrialInv'
  <2>1. ASSUME Followed' PROVE FollowedInv'
    <3>1. Followed /\ FollowedInv
      BY <1>h, <2>1 DEF Followed, Inv, TrialInv
    <3>2. sector = Torn => m.active = "A"
      BY ReadFacts
    <3>3. m.active = fresh => sector # Torn /\ m.trial
      BY <3>1, <3>2 DEF FollowedInv
    <3> QED BY <1>1, <1>4, <1>h, <3>1, <3>3 DEF FollowedInv, Updating
  <2> QED BY <1>1, <1>4, <1>h, <2>1 DEF Inv, TrialInv
<1> QED BY <1>5, <1>6, <1>7 DEF Inv

\* A confirmation ends the trial.
LEMMA ConfirmInv ==
  ASSUME Inv, wdt_meta_confirm_slot
  PROVE  Inv'
<1> DEFINE m == wdt_meta_read(sector)
<1>1. /\ pc = "app" /\ pc' = "confirm_write"
      /\ meta' = [m EXCEPT !.trial = FALSE, !.boots = 0, !.resets = 0]
      /\ UNCHANGED <<flash, sector, flags, session, retries, armed, loaded, history>>
  BY DEF wdt_meta_confirm_slot
<1>2. m \in Metadata
  BY ReadType DEF Inv, TypeOK
<1>3. meta' \in Metadata
  BY <1>1, <1>2, MetaTypes
<1>4. meta'.boots = 0
  BY <1>1, <1>2 DEF Metadata
<1>h. fresh' = fresh /\ tries' = tries /\ torn' = torn /\ saved' = saved
  BY <1>1 DEF history, trial
<1>5. TypeOK'
  <2>1. pc' \in Label
    BY <1>1 DEF Label, Writing
  <2> QED BY <1>1, <1>3, <1>h, <2>1 DEF Inv, TypeOK
<1>6. SessionInv' /\ FlagsInv' /\ SyncInv' /\ ValidInv'
  BY <1>1, BootAssumption
     DEF Inv, SessionInv, NoSession, FlagsInv, SyncInv, ValidInv, Updating, InApp
<1>7. TrialInv'
  <2>1. Followed' => FollowedInv'
    BY <1>1, <1>h DEF Inv, TrialInv, Followed, FollowedInv, Updating
  <2> QED BY <1>1, <1>4, <1>h, <2>1, BootAssumption DEF Inv, TrialInv
<1> QED BY <1>5, <1>6, <1>7 DEF Inv

\* The jump back into the bootloader keeps the invariant, even out of a write.
LEMMA DfuRebootInv ==
  ASSUME Inv, dfu_reboot
  PROVE  Inv'
<1>1. /\ pc \in InApp /\ pc' = "init" /\ CutShort
      /\ flags' = [flags EXCEPT !.magic = TRUE, !.cold = FALSE, !.dfu = TRUE]
      /\ loaded' = Erased
      /\ UNCHANGED <<flash, meta, session, retries, armed, saved>>
  BY DEF dfu_reboot, enter_bootloader, InApp
<1>c. /\ sector' \in Metadata \cup {Torn}
      /\ fresh' \in AppSlot \cup {NoSlot} /\ tries' \in Nat /\ torn' \in BOOLEAN
      /\ TrialInv'
  <2>1. meta'.boots < MaxAttempts
    BY <1>1 DEF Inv, TrialInv
  <2> QED BY <1>1, <2>1, CutShortInv
<1>2. flags' \in Flags /\ flags'.dfu
  BY <1>1 DEF Inv, TypeOK, Flags
<1>3. TypeOK'
  <2>1. pc' \in Label
    BY <1>1 DEF Label
  <2> QED BY <1>1, <1>2, <1>c, <2>1, ValueTypes DEF Inv, TypeOK
<1>4. SessionInv' /\ FlagsInv' /\ SyncInv' /\ ValidInv'
  BY <1>1, <1>2, BootAssumption
     DEF Inv, SessionInv, NoSession, FlagsInv, SyncInv, ValidInv, Updating, InApp
<1> QED BY <1>3, <1>4, <1>c DEF Inv

\* The wiper keeps the invariant, whichever of its writes fails.
LEMMA WiperInv ==
  ASSUME Inv, NEW n \in 0 .. 3, wiper(n)
  PROVE  Inv'
<1>1. /\ pc = "bootstrap" /\ pc' \in {"init", "hung"}
      /\ flash' = [flash EXCEPT !["A"] = IF n >= 1 THEN Erased ELSE @,
                                !["B"] = IF n >= 2 THEN Erased ELSE @]
      /\ sector' \in {sector, Torn}
      /\ flags' \in Survives(flags)
      /\ \/ sector' = Torn /\ Unfollow
         \/ sector' = sector /\ UNCHANGED trial
      /\ UNCHANGED <<meta, session, retries, armed, loaded, saved>>
  BY DEF wiper, Survives
<1>h. /\ fresh' \in AppSlot \cup {NoSlot} /\ tries' \in Nat /\ torn' \in BOOLEAN
      /\ TrialInv'
  <2>0. fresh \in AppSlot \cup {NoSlot} /\ tries \in Nat /\ torn \in BOOLEAN
    BY DEF Inv, TypeOK
  <2>1. CASE sector' = Torn /\ Unfollow
    <3>1. fresh' = NoSlot /\ tries' = 0 /\ torn' = FALSE
      BY <2>1 DEF Unfollow, Follow
    <3>2. ~ Followed'
      BY <3>1 DEF Followed
    <3>3. TrialInv'
      BY <1>1, <2>1, <3>1, <3>2, ReadFacts, BootAssumption DEF Inv, TrialInv
    <3> QED BY <3>1, <3>3
  <2>2. CASE sector' = sector /\ UNCHANGED trial
    <3>1. fresh' = fresh /\ tries' = tries /\ torn' = torn
      BY <2>2 DEF trial
    <3>2. Followed' => FollowedInv'
      BY <1>1, <2>2, <3>1 DEF Inv, TrialInv, Followed, FollowedInv, Updating
    <3>3. TrialInv'
      BY <1>1, <2>2, <3>1, <3>2 DEF Inv, TrialInv
    <3> QED BY <2>0, <3>1, <3>3
  <2> QED BY <1>1, <2>1, <2>2
<1>2. flash' \in [Region -> Content]
  BY <1>1, ValueTypes DEF Inv, TypeOK, Region, AppSlot
<1>3. flags' \in Flags /\ (~ flags'.cold => flags'.dfu)
  BY <1>1, FlagsSurvive
<1>4. TypeOK'
  <2>1. pc' \in Label
    BY <1>1 DEF Label
  <2> QED BY <1>1, <1>2, <1>3, <1>h, <2>1 DEF Inv, TypeOK
<1>5. SessionInv' /\ FlagsInv' /\ SyncInv' /\ ValidInv'
  BY <1>1, <1>3, BootAssumption
     DEF Inv, SessionInv, NoSession, FlagsInv, SyncInv, ValidInv, Updating, InApp
<1> QED BY <1>4, <1>5, <1>h DEF Inv

\* The steps that only move on.
LEMMA MoveInv ==
  ASSUME Inv,
         UNCHANGED <<flash, sector, flags, meta, retries, armed, loaded, history>>,
         \/ pc = "bootstrap" /\ pc' \in {"init", "hung"} /\ session' = session
         \/ pc = "exec" /\ pc' = "trigger" /\ session' = session
         \/ pc = "exec" /\ pc' = "load" /\ ~ flags.dfu /\ flags.crc_ok /\ session' = session
         \/ pc = "trigger" /\ pc' = "session" /\ session' = NoSession
         \/ pc' = pc /\ session' = session
  PROVE  Inv'
<1>1. TypeOK'
  BY ValueTypes DEF Inv, TypeOK, Label, history, trial
<1>2. SessionInv'
  BY BootAssumption DEF Inv, SessionInv, NoSession
<1>3. FlagsInv' /\ ValidInv'
  BY DEF Inv, FlagsInv, ValidInv, Updating, InApp
<1>4. SyncInv' /\ TrialInv'
  BY DEF Inv, SyncInv, TrialInv, Followed, FollowedInv, Updating, history, trial
<1> QED BY <1>1, <1>2, <1>3, <1>4 DEF Inv

-------------------------------------------------------------------------------

\* Every step keeps the invariant, and outside the bootstrap none touches the
\* slot that the metadata on the eMMC name as active, unless the bootloader's
\* first write has failed.
LEMMA NextInv ==
  ASSUME Inv, [Next]_vars
  PROVE  /\ Inv'
         /\ pc # "bootstrap" /\ saved =>
              flash'[wdt_meta_read(sector).active] = flash[wdt_meta_read(sector).active]
<1>1. CASE bootstrap
  <2>1. Inv'
    BY <1>1, MoveInv DEF bootstrap
  <2> QED BY <1>1, <2>1 DEF bootstrap
<1>2. CASE \E n \in 0 .. 3 : wiper(n)
  <2>1. PICK n \in 0 .. 3 : wiper(n)
    BY <1>2
  <2>2. Inv'
    BY <2>1, WiperInv
  <2> QED BY <2>1, <2>2 DEF wiper
<1>3. CASE bootloader_init
  <2>1. Inv'
    BY <1>3, BootloaderInitInv
  <2> QED BY <1>3, <2>1 DEF bootloader_init
<1>4. CASE bootloader_execute
  <2>1. Inv'
    BY <1>4, MoveInv DEF bootloader_execute
  <2> QED BY <1>4, <2>1 DEF bootloader_execute
<1>5. CASE dfu_trigger
  <2>1. Inv'
    BY <1>5, MoveInv DEF dfu_trigger
  <2> QED BY <1>5, <2>1 DEF dfu_trigger
<1>6. CASE dfu_abort \/ dfu_timed_out \/ dfu_crc_mismatch
  <2>1. pc = "session" /\ Aborted /\ UNCHANGED <<flash, sector, flags, meta, armed, loaded, history>>
    BY <1>6 DEF dfu_abort, dfu_timed_out, dfu_crc_mismatch
  <2>2. Inv'
    BY <2>1, AbortInv
  <2> QED BY <2>1, <2>2
<1>7. CASE \E i \in Image : dfu_start(i, i \in Loader)
  <2>1. PICK i \in Image : dfu_start(i, i \in Loader)
    BY <1>7
  <2>2. (i \in Loader) \in BOOLEAN
    <3>1. (i \in Loader) = TRUE \/ (i \in Loader) = FALSE
      OBVIOUS
    <3> QED BY <3>1, Zenon
  <2> QED BY <2>1, <2>2, DfuStartInv
<1>8. CASE \E n \in 1 .. SectorChunks, damaged \in BOOLEAN :
             session.received + n <= MaxReceived /\ dfu_data(n, damaged)
  BY <1>8, DfuDataInv
<1>9. CASE dfu_finish
  BY <1>9, DfuFinishInv
<1>10. CASE dfu_verify
  <2>1. Inv'
    BY <1>10, DfuVerifyInv
  <2> QED BY <1>10, <2>1 DEF dfu_verify
<1>11. CASE init_written \/ dfu_written \/ config_written \/ confirm_written
  <2>1. Inv'
    BY <1>11, WriteInv DEF init_written, dfu_written, config_written, confirm_written, Writing
  <2> QED BY <1>11, <2>1
      DEF init_written, dfu_written, config_written, confirm_written, wdt_meta_write
<1>12. CASE commit_written
  <2>1. Inv'
    BY <1>12, CommitInv
  <2> QED BY <1>12, <2>1 DEF commit_written, wdt_meta_write
<1>13. CASE boot_app
  <2>1. Inv'
    BY <1>13, BootAppInv
  <2> QED BY <1>13, <2>1 DEF boot_app
<1>14. CASE \E config \in Configs : watchdog_init(config)
  <2>1. PICK config \in Configs : watchdog_init(config)
    BY <1>14
  <2>2. Inv'
    BY <2>1, WatchdogInitInv
  <2> QED BY <2>1, <2>2 DEF watchdog_init
<1>15. CASE wdt_meta_confirm_slot
  <2>1. Inv'
    BY <1>15, ConfirmInv
  <2> QED BY <1>15, <2>1 DEF wdt_meta_confirm_slot
<1>16. CASE dfu_reboot
  <2>1. Inv'
    BY <1>16, DfuRebootInv
  <2> QED BY <1>16, <2>1 DEF dfu_reboot, enter_bootloader
<1>17. CASE PowerLoss \/ WatchdogReset
  <2>1. flash' = flash
    BY <1>17 DEF PowerLoss, WatchdogReset
  <2>2. PICK f \in Survives(flags) : Reset(f)
    BY <1>17 DEF PowerLoss, WatchdogReset, Survives
  <2>3. flash' \in [Region -> Content]
    BY <2>1 DEF Inv, TypeOK
  <2>4. f \in Flags /\ (~ f.cold => f.dfu)
    BY FlagsSurvive
  <2>5. Inv'
    BY <2>2, <2>3, <2>4, ResetInv
  <2> QED BY <2>1, <2>5
<1>18. CASE UNCHANGED vars
  <2>1. UNCHANGED <<flash, sector, flags, meta, retries, armed, loaded, history>>
        /\ session' = session /\ pc' = pc
    BY <1>18 DEF vars
  <2>2. Inv'
    BY <2>1, MoveInv
  <2> QED BY <2>1, <2>2
<1> QED BY <1>1, <1>2, <1>3, <1>4, <1>5, <1>6, <1>7, <1>8, <1>9, <1>10, <1>11, <1>12, <1>13,
           <1>14, <1>15, <1>16, <1>17, <1>18 DEF Next

\* The inductive invariant holds in every reachable state.
THEOREM InvHolds == Spec => []Inv
<1>1. Inv /\ [Next]_vars => Inv'
  BY NextInv
<1> QED BY InitInv, <1>1, PTL DEF Spec

\* The state of the boot chain keeps its type; a session never buffers a whole
\* sector (dfu_receive).
THEOREM TypeCorrect == Spec => []TypeOK
<1>1. Inv => TypeOK
  BY DEF Inv
<1> QED BY InvHolds, <1>1, PTL

\* Whatever is lost, torn or damaged, the bootloader jumps to whole images only
\* (bootloader_execute, dfu_receive).
THEOREM BootsWhole == Spec => []BootsOnlyValid
<1>1. Inv => BootsOnlyValid
  BY DEF Inv, ValidInv, BootsOnlyValid
<1> QED BY InvHolds, <1>1, PTL

\* An application that an update has committed and that never confirms is started
\* a bounded number of times before the bootloader leaves it: in slot B through
\* resets at any point, in slot A through all that do not tear the metadata
\* sector (bootloader_init's trial count).
THEOREM TrialsEnd == Spec => []TrialBounded
<1>1. Inv => TrialBounded
  BY BootAssumption DEF Inv, TypeOK, TrialInv, Followed, FollowedInv, TrialBounded
<1> QED BY InvHolds, <1>1, PTL

\* No update writes the slot that the metadata on the eMMC name as active, in a
\* boot whose first metadata write has not failed (dfu_receive's choice of the
\* base sector).
THEOREM ActiveKept == Spec => ActiveUntouched
<1>1. Inv /\ [Next]_vars =>
        [pc # "bootstrap" /\ saved =>
           LET s == wdt_meta_read(sector).active IN flash'[s] = flash[s]]_vars
  BY NextInv
<1> QED BY InvHolds, <1>1, PTL DEF Spec, ActiveUntouched
===============================================================================
