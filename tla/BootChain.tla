------------------------------- MODULE BootChain -------------------------------
(***************************************************************************)
(* The boot chain on eMMC: bootstrap and bootloader (samples/boot), image  *)
(* validation and loading (boot.c), the update session (dfu_receive.c),    *)
(* the flags in RAM (boot_flags.c), the metadata sector (watchdog.c) and   *)
(* what the running application does to them, with power loss and watchdog *)
(* resets at any point.                                                    *)
(*                                                                         *)
(* An image is a model value of Length[i] chunks; a chunk is the unit of a *)
(* DFU packet.  Of a region of the eMMC the model keeps the image its      *)
(* header announces and the chunk positions that hold what that image has  *)
(* there; CRC32 is taken to tell apart what differs.  Blocks are read      *)
(* without error.  Block writes may fail, of an image and of the metadata, *)
(* as their status is ignored, and a reset may tear the metadata sector.   *)
(*                                                                         *)
(* Four variables are histories, which no guard reads.  Three follow the   *)
(* application that the last update has committed: until the sector says   *)
(* that it is confirmed or names the other slot, until a metadata write    *)
(* fails, or until the policy ROLLBACK undoes the rollback of the trial.   *)
(***************************************************************************)
EXTENDS Integers

CONSTANTS
  Image,           \* images the host can send, and the ones in the factory
  Length,          \* fw_length in chunks; 0 for a malformed header
  Marked,          \* images that carry DFU_APP_MAGIC
  Loader,          \* images of bootloaders; the host sends them as such
  NoImage,         \* an erased or garbled header
  Torn,            \* a metadata sector with a bad magic or CRC
  SectorChunks,    \* SECTOR_SIZE in chunks
  MaxAttempts,     \* APP_SLOT_TRIAL_MAX_ATTEMPTS
  Retries,         \* NUM_RETRIES
  Configs,         \* WatchdogConfigs (tolerance, policy) applications use
  ResetCap,        \* bound: wdt_reset_count stays at it
  MaxReceived      \* bound: chunks in a session

AppSlot == {"A", "B"}
Region  == AppSlot \cup {"BOOTLOADER"}
Policy  == {"FORCE_UPDATE", "JUMP_SLOT_B", "ROLLBACK"}

ASSUME BootAssumption ==
  /\ Length \in [Image -> Nat]
  /\ NoImage \notin Image
  /\ SectorChunks \in Nat \ {0}
  /\ MaxAttempts \in Nat \ {0}
  /\ Retries \in Nat \ {0}
  /\ ResetCap \in Nat
  /\ MaxReceived \in Nat
  /\ Configs \subseteq [tolerance : -1 .. ResetCap - 1, policy : Policy]

Metadata ==
  [active : AppSlot, trial : BOOLEAN, boots : 0 .. MaxAttempts, resets : 0 .. ResetCap,
   tolerance : -1 .. ResetCap, policy : Policy]

ASSUME TornAssumption == Torn \notin Metadata

VARIABLES
  flash,     \* the bootloader's region and the two app slots
  sector,    \* EMMC_SECTOR_METADATA
  flags,     \* boot_flags, in RAM that a reset may or may not preserve
  meta,      \* wdt_meta, the shadow of the running program
  session,   \* statics and locals of dfu_receive
  retries,   \* kmain's retries; 0 in the final recovery loop
  armed,     \* the watchdog counts down
  loaded,    \* what boot_load_app copied to APP_START_ADDR
  fresh,     \* history: the slot of the application that is followed, ...
  tries,     \* history: ... how often it has been started, ...
  torn,      \* history: ... and whether a reset has torn the sector since
  saved,     \* history: the bootloader's first write has not failed in this boot
  pc

trial   == <<fresh, tries, torn>>
history == <<trial, saved>>
vars == <<flash, sector, flags, meta, session, retries, armed, loaded, history, pc>>

NoSlot == "none"

\* The program is about to write the metadata sector
Writing == {"init_write", "commit_write", "dfu_write", "config_write", "confirm_write"}

\* The application has been started
InApp == {"app", "config_write", "confirm_write"}

Label == Writing \cup InApp \cup
  {"bootstrap", "hung", "init", "exec", "trigger", "session", "verify", "load"}

APP_SLOT_OTHER(s) == IF s = "B" THEN "A" ELSE "B"

Chunks(i) == 1 .. Length[i]

\* A region that passes boot_validate_app, and the bootstrap's own check
Valid(r) ==
  /\ r.image # NoImage
  /\ Length[r.image] > 0
  /\ r.good = Chunks(r.image)

Erased == [image |-> NoImage, good |-> {}]
Whole(i) == [image |-> i, good |-> Chunks(i)]

wdt_meta_defaults ==
  [active |-> "A", trial |-> FALSE, boots |-> 0, resets |-> 0,
   tolerance |-> -1, policy |-> "FORCE_UPDATE"]

wdt_meta_read(s) == IF s = Torn THEN wdt_meta_defaults ELSE s

NoSession ==
  [started |-> FALSE, self |-> FALSE, base |-> "A", image |-> NoImage,
   received |-> 0, clean |-> TRUE, buffered |-> 0, right |-> {}]

ColdFlags == [magic |-> FALSE, cold |-> TRUE, dfu |-> FALSE, crc_ok |-> FALSE]

-------------------------------------------------------------------------------

\* A board as it leaves the factory: a good bootloader, an image or none in
\* each slot, and metadata that is erased or names slot A
Init ==
  /\ flash \in [Region -> {Erased} \cup {Whole(i) : i \in Image}]
  /\ Valid(flash["BOOTLOADER"]) /\ flash["BOOTLOADER"].image \in Loader
  /\ \A s \in AppSlot : flash[s].image \notin Loader
  /\ sector \in {Torn, wdt_meta_defaults}
  /\ flags   = ColdFlags
  /\ meta    = wdt_meta_defaults
  /\ session = NoSession
  /\ retries = Retries
  /\ armed   = FALSE
  /\ loaded  = Erased
  /\ fresh   = NoSlot /\ tries = 0 /\ torn = FALSE /\ saved = TRUE
  /\ pc      = "bootstrap"

-------------------------------------------------------------------------------

\* RAM after a reset: boot_flags may or may not have survived
Survives(f) == {f, ColdFlags}

Follow(slot, t) == fresh' = slot /\ tries' = 0 /\ torn' = t
Unfollow == Follow(NoSlot, FALSE)

\* The histories when a write of the metadata has reached the sector, ...
Recorded ==
  IF pc = "commit_write" THEN Follow(meta.active, FALSE)
  ELSE IF pc = "confirm_write" \/ meta.active # fresh THEN Unfollow
  ELSE UNCHANGED trial

\* ... and when a reset has torn it
TornInWrite ==
  IF pc = "commit_write" THEN Follow(meta.active, TRUE)
  ELSE torn' = (fresh # NoSlot) /\ UNCHANGED <<fresh, tries>>

\* A write of the metadata that is cut short may leave a torn sector
CutShort ==
  \/ sector' = sector /\ UNCHANGED trial
  \/ pc \in Writing /\ sector' = Torn /\ TornInWrite

\* A reset of the SoC: programs and their data are loaded afresh
Reset(f) ==
  /\ CutShort
  /\ flags'   = f
  /\ meta'    = wdt_meta_defaults
  /\ session' = NoSession
  /\ retries' = Retries
  /\ armed'   = FALSE
  /\ loaded'  = Erased
  /\ saved'   = TRUE
  /\ pc'      = "bootstrap"

-------------------------------------------------------------------------------

\* The bootstrap's kmain: a bootloader that does not validate is not started
bootstrap ==
  /\ pc = "bootstrap"
  /\ pc' = IF Valid(flash["BOOTLOADER"]) THEN "init" ELSE "hung"
  /\ UNCHANGED <<flash, sector, flags, meta, session, retries, armed, loaded, history>>

\* The wiper image in place of the bootstrap: both slot headers and the metadata
\* are zeroed, in this order, as far as no write fails
wiper(n) ==
  /\ pc = "bootstrap"
  /\ flash'  = [flash EXCEPT !["A"] = IF n >= 1 THEN Erased ELSE @,
                             !["B"] = IF n >= 2 THEN Erased ELSE @]
  /\ sector' = IF n >= 3 THEN Torn ELSE sector
  /\ flags'  = IF n >= 3 THEN ColdFlags ELSE flags
  /\ pc'     = IF n >= 3 /\ Valid(flash["BOOTLOADER"]) THEN "init" ELSE "hung"
  /\ IF n >= 3 THEN Unfollow ELSE UNCHANGED trial
  /\ UNCHANGED <<meta, session, retries, armed, loaded, saved>>

-------------------------------------------------------------------------------
\* bootloader_init

boot_flags_init == IF flags.magic THEN flags ELSE [ColdFlags EXCEPT !.magic = TRUE]

\* BUG: one more attempt than allowed.
TrialExpired_OneMore(m) == m.trial /\ m.boots + 1 > MaxAttempts

\* The slot that the previous boot left on trial has used up its attempts
TrialExpired(m) == m.trial /\ m.boots + 1 >= MaxAttempts

RolledBack(m) ==
  [m EXCEPT !.active = APP_SLOT_OTHER(@), !.trial = FALSE, !.boots = 0]

TrialResolved(m) ==
  IF TrialExpired(m) THEN RolledBack(m)
  ELSE IF m.trial THEN [m EXCEPT !.boots = @ + 1]
  ELSE m

\* wdt_reset_count++, on every boot
Counted(m) == [m EXCEPT !.resets = IF @ < ResetCap THEN @ + 1 ELSE @]

ToleranceExceeded(m, policy) ==
  m.tolerance >= 0 /\ m.resets > m.tolerance /\ m.policy = policy

bootloader_init ==
  LET f  == boot_flags_init
      m0 == wdt_meta_read(sector)
      m  == Counted(TrialResolved(m0))
      forced     == ToleranceExceeded(m, "FORCE_UPDATE")
      rolledBack == ToleranceExceeded(m, "ROLLBACK")
      m1 == IF rolledBack THEN [RolledBack(m) EXCEPT !.resets = 0]
            ELSE IF forced THEN [m EXCEPT !.resets = 0]
            ELSE m
      ok == IF f.cold \/ TrialExpired(m0) \/ rolledBack
              THEN Valid(flash[m1.active]) ELSE f.crc_ok
  IN  /\ pc = "init"
      /\ meta'    = m1
      /\ flags'   = [magic |-> TRUE, cold |-> f.cold /\ ~ forced,
                     dfu |-> f.dfu \/ forced, crc_ok |-> ok]
      /\ retries' = Retries
      /\ IF rolledBack /\ m1.active = fresh THEN Unfollow ELSE UNCHANGED trial
      /\ pc'      = "init_write"
      /\ UNCHANGED <<flash, sector, session, armed, loaded, saved>>

-------------------------------------------------------------------------------
\* dfu_receive

\* bootloader_execute: an update is asked for or needed, or the slot is loaded
bootloader_execute ==
  /\ pc = "exec"
  /\ pc' = IF flags.dfu \/ ~ flags.crc_ok THEN "trigger" ELSE "load"
  /\ UNCHANGED <<flash, sector, flags, meta, session, retries, armed, loaded, history>>

\* The host sends the trigger key, and the session starts afresh
dfu_trigger ==
  /\ pc = "trigger"
  /\ session' = NoSession
  /\ pc' = "session"
  /\ UNCHANGED <<flash, sector, flags, meta, retries, armed, loaded, history>>

\* dfu_receive does not return E_OK: kmain tries again, in the end for ever
Aborted ==
  /\ session' = NoSession
  /\ retries' = IF retries > 0 THEN retries - 1 ELSE 0
  /\ pc'      = IF retries > 1 THEN "exec" ELSE "trigger"

\* CMD_ABORT, a START of the wrong length or a second one, and DATA that is not
\* a multiple of four bytes
dfu_abort ==
  /\ pc = "session"
  /\ Aborted
  /\ UNCHANGED <<flash, sector, flags, meta, armed, loaded, history>>

\* dfu_packet_receive gets the start of a packet, and the rest not in time.  (A
\* whole packet is the input of the actions below; its CRC is not looked at, so
\* its data may be damaged.)
dfu_timed_out ==
  /\ pc = "session"
  /\ Aborted
  /\ UNCHANGED <<flash, sector, flags, meta, armed, loaded, history>>

\* What a header write leaves: nothing new, garbage, or the header.  Chunks of
\* another image are not those of this one.
HeaderWrites(r, i) ==
  {r, Erased, [image |-> i, good |-> IF r.image = i THEN r.good ELSE {}]}

\* What a sector write leaves at its chunks `at', of which `right' are those of
\* image i there: nothing new, garbage, or the data
SectorWrites(r, i, at, right) ==
  {r, [r EXCEPT !.good = @ \ at],
      [r EXCEPT !.good = (@ \ at) \cup
                  (IF r.image = i THEN right \cap Chunks(i) ELSE {})]}

\* BUG: the session writes the slot that is in use.
DfuBase_Active(self) == IF self THEN "BOOTLOADER" ELSE meta.active

DfuBase(self) == IF self THEN "BOOTLOADER" ELSE APP_SLOT_OTHER(meta.active)

\* CMD_START and CMD_START_SELF_UPDATE
dfu_start(i, self) ==
  /\ pc = "session"
  /\ ~ session.started
  /\ session' = [session EXCEPT !.started = TRUE, !.self = self,
                                !.base = DfuBase(self), !.image = i]
  /\ \E r \in HeaderWrites(flash[DfuBase(self)], i) :
       flash' = [flash EXCEPT ![DfuBase(self)] = r]
  /\ UNCHANGED <<sector, flags, meta, retries, armed, loaded, history, pc>>

\* BUG: a sector that is exactly full is not written.
SectorFull_Strict(n) == session.buffered + n > SectorChunks

SectorFull(n) == session.buffered + n >= SectorChunks

\* CMD_DATA: n chunks, which are those of the image, or damaged or out of place.
\* A sector that is full is written; what is left over starts the next one.
\* (Before START the packet is ignored.)
dfu_data(n, damaged) ==
  LET first == session.received - session.buffered   \* chunks already written
      total == session.received + n
      new   == session.received + 1 .. total
      right == session.right \cup (IF damaged THEN {} ELSE new)
      at    == first + 1 .. first + SectorChunks
  IN  /\ pc = "session"
      /\ session.started
      /\ session' = [session EXCEPT
           !.received = total,
           !.clean    = @ /\ (damaged => new \cap Chunks(session.image) = {}),
           !.buffered = IF SectorFull(n) THEN @ + n - SectorChunks ELSE @ + n,
           !.right    = IF SectorFull(n) THEN right \ at ELSE right]
      /\ IF SectorFull(n)
           THEN \E r \in SectorWrites(flash[session.base], session.image, at, right \cap at) :
                  flash' = [flash EXCEPT ![session.base] = r]
           ELSE UNCHANGED flash
      /\ UNCHANGED <<sector, flags, meta, retries, armed, loaded, history, pc>>

\* The streamed CRC against the announced one.  Without a START both are
\* uninitialised and the comparison can go either way.
CrcMatches ==
  IF session.started
    THEN {session.clean /\ session.received >= Length[session.image]}
    ELSE BOOLEAN

\* The partly filled sector is written, if there is one
Flushed ==
  IF session.buffered = 0 THEN {flash[session.base]}
  ELSE LET first == session.received - session.buffered
       IN  SectorWrites(flash[session.base], session.image,
                        first + 1 .. first + SectorChunks, session.right)

\* CMD_FINISH up to the flush.  A new bootloader is started by a reset.
dfu_finish ==
  /\ pc = "session"
  /\ TRUE \in CrcMatches
  /\ \E r \in Flushed : flash' = [flash EXCEPT ![session.base] = r]
  /\ IF session.self
       THEN \E f \in Survives(flags) : Reset(f)
       ELSE /\ pc' = "verify"
            /\ UNCHANGED <<sector, flags, meta, session, retries, armed, loaded, history>>

\* CMD_FINISH with a CRC that does not match
dfu_crc_mismatch ==
  /\ pc = "session"
  /\ FALSE \in CrcMatches
  /\ Aborted
  /\ UNCHANGED <<flash, sector, flags, meta, armed, loaded, history>>

\* BUG: the read-back is skipped, the streamed CRC is believed.
Committable_Streamed(s) == flash[s].image \in Marked

\* Read-back validation and marker
Committable(s) == Valid(flash[s]) /\ flash[s].image \in Marked

\* The rest of CMD_FINISH: the slots are flipped only if the new one validates
dfu_verify ==
  LET new == APP_SLOT_OTHER(meta.active)
  IN  /\ pc = "verify"
      /\ IF Committable(new)
           THEN /\ meta' = [meta EXCEPT !.active = new, !.trial = TRUE, !.boots = 0]
                /\ pc' = "commit_write"
                /\ session' = NoSession
                /\ UNCHANGED retries
           ELSE Aborted /\ UNCHANGED meta
      /\ UNCHANGED <<flash, sector, flags, armed, loaded, history>>

-------------------------------------------------------------------------------
\* wdt_meta_write, and where each of its callers goes on: none stops at a failure

wdt_meta_write(from, to) ==
  /\ pc = from
  /\ \/ sector' = meta /\ Recorded
     \/ sector' \in {sector, Torn} /\ Unfollow
  /\ pc' = to
  /\ saved' = (from = "init_write" => sector' = meta)
  /\ UNCHANGED <<flash, session, retries, armed, loaded>>

init_written    == wdt_meta_write("init_write", "exec") /\ UNCHANGED <<flags, meta>>
config_written  == wdt_meta_write("config_write", "app") /\ UNCHANGED <<flags, meta>>
confirm_written == wdt_meta_write("confirm_write", "app") /\ UNCHANGED <<flags, meta>>

\* fw_crc_ok; then bootloader_execute clears wdt_reset_count and writes again
commit_written ==
  /\ wdt_meta_write("commit_write", "dfu_write")
  /\ flags' = [flags EXCEPT !.crc_ok = TRUE]
  /\ meta'  = [meta EXCEPT !.resets = 0]
dfu_written == wdt_meta_write("dfu_write", "load") /\ UNCHANGED <<flags, meta>>

\* boot_load_app, boot_jump_to_app.  (The history stays at its first value above
\* MaxAttempts.)
boot_app ==
  /\ pc = "load"
  /\ loaded' = flash[meta.active]
  /\ tries'  = IF meta.active = fresh /\ tries <= MaxAttempts THEN tries + 1 ELSE tries
  /\ pc'     = "app"
  /\ saved'  = TRUE
  /\ UNCHANGED <<flash, sector, flags, meta, session, retries, armed, fresh, torn>>

-------------------------------------------------------------------------------
\* The application

\* watchdog_init: the countdown starts, the policy is recorded
watchdog_init(config) ==
  /\ pc = "app"
  /\ armed' = TRUE
  /\ meta'  = [wdt_meta_read(sector) EXCEPT
                 !.tolerance = config.tolerance, !.policy = config.policy]
  /\ pc'    = "config_write"
  /\ UNCHANGED <<flash, sector, flags, session, retries, loaded, history>>

\* wdt_meta_confirm_slot
wdt_meta_confirm_slot ==
  /\ pc = "app"
  /\ meta' = [wdt_meta_read(sector) EXCEPT !.trial = FALSE, !.boots = 0, !.resets = 0]
  /\ pc'   = "confirm_write"
  /\ UNCHANGED <<flash, sector, flags, session, retries, armed, loaded, history>>

\* A jump, not a reset, even out of a write: the watchdog stays armed.  (The
\* image in RAM is forgotten: it is overwritten before it is used again.)
enter_bootloader ==
  /\ CutShort
  /\ loaded' = Erased
  /\ pc' = "init"
  /\ UNCHANGED <<flash, meta, session, retries, armed, saved>>

\* dfu_reboot_task, whose priority is above that of the confirm task
dfu_reboot ==
  /\ pc \in {"app", "confirm_write"}
  /\ flags' = [flags EXCEPT !.magic = TRUE, !.cold = FALSE, !.dfu = TRUE]
  /\ enter_bootloader

-------------------------------------------------------------------------------

PowerLoss     == Reset(ColdFlags) /\ UNCHANGED flash
WatchdogReset == armed /\ (\E f \in Survives(flags) : Reset(f)) /\ UNCHANGED flash

Next ==
  \/ bootstrap
  \/ \E n \in 0 .. 3 : wiper(n)
  \/ bootloader_init
  \/ bootloader_execute
  \/ dfu_trigger
  \/ dfu_abort
  \/ dfu_timed_out
  \/ \E i \in Image : dfu_start(i, i \in Loader)
  \/ \E n \in 1 .. SectorChunks, damaged \in BOOLEAN :
       session.received + n <= MaxReceived /\ dfu_data(n, damaged)
  \/ dfu_finish
  \/ dfu_crc_mismatch
  \/ dfu_verify
  \/ init_written \/ commit_written \/ dfu_written \/ config_written \/ confirm_written
  \/ boot_app
  \/ \E config \in Configs : watchdog_init(config)
  \/ wdt_meta_confirm_slot
  \/ dfu_reboot
  \/ PowerLoss
  \/ WatchdogReset

Spec == Init /\ [][Next]_vars

-------------------------------------------------------------------------------

Content == [image : Image \cup {NoImage}, good : SUBSET (Nat \ {0})]
Flags   == [magic : BOOLEAN, cold : BOOLEAN, dfu : BOOLEAN, crc_ok : BOOLEAN]
Session ==
  [started : BOOLEAN, self : BOOLEAN, base : Region, image : Image \cup {NoImage},
   received : Nat, clean : BOOLEAN, buffered : 0 .. SectorChunks - 1,
   right : SUBSET (Nat \ {0})]

TypeOK ==
  /\ flash   \in [Region -> Content]
  /\ sector  \in Metadata \cup {Torn}
  /\ flags   \in Flags
  /\ meta    \in Metadata
  /\ session \in Session
  /\ retries \in 0 .. Retries
  /\ armed   \in BOOLEAN
  /\ loaded  \in Content
  /\ fresh   \in AppSlot \cup {NoSlot}
  /\ tries   \in Nat
  /\ torn    \in BOOLEAN
  /\ saved   \in BOOLEAN
  /\ pc      \in Label

\* Whatever was lost, torn, damaged or cut short before, the application that
\* the bootloader jumps to is a whole image: validated in this boot, or read
\* back at the end of the update that wrote it.
BootsOnlyValid == pc \in InApp => Valid(loaded)

\* An update writes no slot that the metadata on the eMMC name as active
\* (dfu_receive/docs.md, "only the inactive slot was ever written"), unless the
\* write with which the bootloader began has failed: then it may have rolled back
\* from a slot that the sector still names.
ActiveUntouched ==
  [][pc # "bootstrap" /\ saved =>
       LET s == wdt_meta_read(sector).active IN flash'[s] = flash[s]]_vars

\* An application that an update has committed is started at most
\* APP_SLOT_TRIAL_MAX_ATTEMPTS times until it confirms or the bootloader goes
\* back to the other slot (watchdog/docs.md, "A/B trial boot"), through resets at
\* any point, further updates and the reset tolerance, while no write of the
\* metadata fails and ROLLBACK does not undo the rollback.  A torn sector reads as
\* slot A, not on trial: an application in slot B is not started again, but one
\* in slot A is, without end, so for it the sector must not have been torn.
TrialBounded == fresh = "B" \/ ~ torn => tries <= MaxAttempts

\* The same for both slots, as watchdog/docs.md has it ("once that reaches
\* APP_SLOT_TRIAL_MAX_ATTEMPTS the bootloader rolls back").
TrialSurvivesTearing == tries <= MaxAttempts

\* While a slot is on trial the other one, to which the bootloader would roll
\* back, stays valid if it is (watchdog/docs.md, "the previous (untouched,
\* still-valid) slot").
RollbackTargetKept ==
  [][pc # "bootstrap" /\ wdt_meta_read(sector).trial =>
       LET s == APP_SLOT_OTHER(wdt_meta_read(sector).active)
       IN  Valid(flash[s]) => Valid(flash'[s])]_vars
===============================================================================
