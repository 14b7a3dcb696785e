----------------------------- MODULE HistoryLog -----------------------------
(***************************************************************************)
(* Manufacturer data kept in NVS (history_log.c).  Over 4G the main task   *)
(* saves every packet of manufacturer data instead of sending it; when the *)
(* cloud asks for them, the MQTT task publishes the entries one by one and *)
(* erases each that was published, while the main task goes on saving.     *)
(*                                                                         *)
(* NVS hands out its entries in the order of their writing (external).  An *)
(* iterator keeps what it is at, also when that entry is erased; an        *)
(* entry's id is the number of its writing.  A key is the time with the    *)
(* count of saves at that time, printed one after the other: that tells    *)
(* the pairs apart while all times have the same number of digits.         *)
(***************************************************************************)
EXTENDS Naturals, FiniteSets

CONSTANTS
  Quota,       (* HISTORY_LOG_MFG_ENTRIES_MAX_NR                           *)
  Capacity,    (* the entries the partition has room for                   *)
  LastTime,    (* Bound on the clock.                                      *)
  MaxSaves     (* Bound on the packets saved.                              *)

HistoryAssumption ==
  /\ Quota \in Nat /\ Capacity \in Nat /\ LastTime \in Nat
  /\ MaxSaves \in Nat

VARIABLES
  store,         (* the entries in NVS: id and key                          *)
  saves,         (* ids given so far                                       *)
  clock,         (* time()                                                 *)
  oldTimestamp,  (* static of history_log_save, with the count of saves    *)
  duplicates,    (*   at that time                                         *)
  saving,        (* the key history_log_save is about to write, or <<>>    *)
  iterator,      (* the entry the report's iterator is at, or NoEntry      *)
  info,          (* the entry of the round, which the second device uses   *)
  reporting,     (* where history_log_report_saved of the MQTT task is     *)
  published,     (* ghost: the ids published                               *)
  gone,          (* ghost: the ids evicted at the quota                    *)
  mishaps        (* ghost: what may lose a packet                          *)

stamp  == <<clock, oldTimestamp, duplicates>>
report == <<iterator, info, reporting, published>>
vars   == <<store, saves, stamp, saving, report, gone, mishaps>>

Ids == {e.id : e \in store}
NoEntry == [id |-> 0, key |-> <<>>]

(* nvs_entry_find, which starts before the first, and nvs_entry_next.      *)
After(entry) ==
  LET later == {e \in store : e.id > entry.id}
  IN IF later = {} THEN NoEntry
     ELSE CHOOSE e \in later : \A other \in later : e.id <= other.id

(* repeated: a save after a restart has the key of an entry in NVS.        *)
Mishaps == {"repeated"}

Init ==
  /\ store = {}
  /\ saves = 0
  /\ clock = 0 /\ oldTimestamp = 0 /\ duplicates = 0
  /\ saving = <<>>
  /\ iterator = NoEntry /\ info = NoEntry
  /\ reporting = "idle" /\ published = {}
  /\ gone = {}
  /\ mishaps = {}

Tick ==
  /\ clock < LastTime
  /\ clock' = clock + 1
  /\ UNCHANGED <<store, saves, oldTimestamp, duplicates, saving, report, gone,
                 mishaps>>

-----------------------------------------------------------------------------
(* Variant: the quota is tested after one entry more.                      *)
SaveLate ==
  /\ saving = <<>>
  /\ saves < MaxSaves
  /\ duplicates' = IF clock = oldTimestamp THEN duplicates + 1 ELSE 0
  /\ oldTimestamp' = clock
  /\ saving' = <<clock, duplicates'>>
  /\ LET evicted == {e \in {After(NoEntry)} : Cardinality(store) > Quota + 1}
     IN /\ store' = store \ evicted
        /\ gone' = gone \cup {e.id : e \in evicted}
  /\ UNCHANGED <<saves, clock, report, mishaps>>

(* history_log_save: the key; at the quota "Free the 2 oldest entries": the *)
(* iterator advances but the key is not read again, so that the same key   *)
(* is erased twice.                                                        *)
Save ==
  /\ saving = <<>>
  /\ saves < MaxSaves
  /\ duplicates' = IF clock = oldTimestamp THEN duplicates + 1 ELSE 0
  /\ oldTimestamp' = clock
  /\ saving' = <<clock, duplicates'>>
  /\ LET evicted == {e \in {After(NoEntry)} : Cardinality(store) > Quota} IN
     /\ store' = store \ evicted
     /\ gone' = gone \cup {e.id : e \in evicted}
  /\ UNCHANGED <<saves, clock, report, mishaps>>

(* nvs_set_blob and nvs_commit: an entry with the same key is replaced.    *)
Set ==
  LET others == {e \in store : e.key # saving}
      fits   == Cardinality(store) < Capacity
  IN
  /\ saving # <<>>
  /\ saves' = saves + 1
  /\ store' = IF fits THEN others \cup {[id |-> saves', key |-> saving]}
              ELSE store
  /\ mishaps' = mishaps \cup {m \in {"repeated"} : fits /\ others # store}
  /\ saving' = <<>>
  /\ UNCHANGED <<stamp, report, gone>>

-----------------------------------------------------------------------------
(* history_log_report_saved: nvs_entry_find.                               *)
Report ==
  /\ reporting = "idle"
  /\ iterator' = After(NoEntry)
  /\ reporting' = IF iterator' = NoEntry THEN "idle" ELSE "next"
  /\ UNCHANGED <<store, saves, stamp, saving, info, published, gone, mishaps>>

(* Variant: the key is erased whatever the client returned.                *)
PublishEntryErase(entry) ==
  LET held == {e \in store : e.key = entry.key} IN
  \E accepted \in BOOLEAN :
    /\ published' = published \cup {i \in {e.id : e \in held} : accepted}
    /\ store' = store \ held

(* One publish of what is read under the entry's key on the topic of an    *)
(* active device; if the client accepts it, the key is erased.             *)
PublishEntry(entry) ==
  LET held == {e \in store : e.key = entry.key} IN
  \E accepted \in BOOLEAN :
    /\ published' = published \cup {i \in {e.id : e \in held} : accepted}
    /\ store' = IF accepted THEN store \ held ELSE store

(* A round: the iterator advances either way.  A round without an active   *)
(* device leaves it where it is.                                           *)
Publish(both) ==
  /\ reporting = "next"
  /\ PublishEntry(iterator)
  /\ iterator' = After(iterator)
  /\ info' = IF both THEN iterator ELSE NoEntry
  /\ reporting' = CASE both -> "both"
                    [] ~both /\ iterator' # NoEntry -> "next"
                    [] OTHER -> "idle"
  /\ UNCHANGED <<saves, stamp, saving, gone, mishaps>>

(* Variant: the second device starts again with the first entry.           *)
PublishFromStart ==
  /\ reporting = "both"
  /\ iterator # NoEntry
  /\ PublishEntry(info)
  /\ iterator' = After(NoEntry)
  /\ info' = NoEntry
  /\ reporting' = IF iterator' = NoEntry THEN "idle" ELSE "next"
  /\ UNCHANGED <<saves, stamp, saving, gone, mishaps>>

(* With two devices active the second publishes the same data once more,   *)
(* erases the same key and advances the iterator again.                    *)
PublishAgain ==
  /\ reporting = "both"
  /\ iterator # NoEntry
  /\ PublishEntry(info)
  /\ iterator' = After(iterator)
  /\ info' = NoEntry
  /\ reporting' = IF iterator' = NoEntry THEN "idle" ELSE "next"
  /\ UNCHANGED <<saves, stamp, saving, gone, mishaps>>

(* The memory of a restart: NVS keeps what is written, the clock survives  *)
(* unless the power was lost.                                              *)
Reboot ==
  /\ clock' \in {0, clock}
  /\ oldTimestamp' = 0 /\ duplicates' = 0
  /\ saving' = <<>>
  /\ iterator' = NoEntry /\ info' = NoEntry /\ reporting' = "idle"
  /\ UNCHANGED <<saves, gone, mishaps>>

Restart ==
  /\ Reboot
  /\ UNCHANGED <<store, published>>

(* nvs_entry_next of a NULL iterator is an assertion: the last entry went  *)
(* out twice, the gateway restarts and the report does not end.            *)
PublishPast ==
  /\ reporting = "both"
  /\ iterator = NoEntry
  /\ PublishEntry(info)
  /\ Reboot

Reporter ==
  \/ \E both \in BOOLEAN : Publish(both)
  \/ PublishAgain
  \/ PublishPast

Next ==
  \/ Tick
  \/ Save \/ Set
  \/ Report
  \/ Reporter
  \/ Restart

Fairness == WF_vars(Reporter)

Spec == Init /\ [][Next]_vars /\ Fairness

-----------------------------------------------------------------------------
(* Types; the entries in NVS stay within its room.                         *)
TypeOK ==
  /\ Ids \subseteq 1..saves /\ saves \in 0..MaxSaves
  /\ \A e, f \in store : e.key = f.key => e = f
  /\ Cardinality(store) <= Capacity
  /\ saving \in {<<>>} \cup ((0..LastTime) \X (0..MaxSaves))
  /\ \A entry \in {iterator, info} : entry.id \in 0..saves
  /\ reporting \in {"idle", "next", "both"}
  /\ gone \subseteq 1..saves
  /\ mishaps \subseteq Mishaps

(* No packet vanishes: each one saved is in NVS, has been published or was *)
(* evicted as the oldest at the quota, unless its key was repeated after a *)
(* restart.  NVS refuses none: erasing one entry per save at the quota is  *)
(* enough, although the comment wants two freed and the report is slow.    *)
NothingVanishes ==
  "repeated" \notin mishaps => 1..saves = Ids \cup published \cup gone

(* An asked for report is open until it ends, which it does once a device  *)
(* is active, even when publishing fails and entries are added meanwhile.  *)
ReportOpen == reporting # "idle"
=============================================================================
