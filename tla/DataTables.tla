----------------------------- MODULE DataTables -----------------------------
(***************************************************************************)
(* The mapped files of GameDataManager and I18nTextManager: how they are   *)
(* opened, switched and closed, and the look-ups in them. Both managers    *)
(* belong to the game thread and share the process's descriptors.          *)
(*                                                                         *)
(* The files are written by a tool outside the repository, which is taken  *)
(* to write what the look-ups expect (WellWritten). A file is the sequence *)
(* of its text ids, or of the entries in each chain; where an entry lies   *)
(* in its file is left out, and so is what a text says.                    *)
(***************************************************************************)
EXTENDS Integers, Sequences, SequencesExt

CONSTANTS
  Lang, DataFile,       \* the text files, one per language, and the data files
  Buffer,               \* the places langName may point to
  None,                 \* nullptr, of either kind
  Id, Name, Key,        \* what is looked up
  Hash,                 \* BkdrHash of each name
  infoCapacity, keyCapacity,
  UintRange,            \* 2^32
  Disk,                 \* the possible contents of the files
  MaxFd                 \* the descriptor limit; descriptors are 1 .. MaxFd

InfoSlot == 0 .. infoCapacity - 1
KeySlot == 0 .. keyCapacity - 1

\* Text ids are ascending; every entry is in the chain of its slot, the slots
\* computed without sign.
WellWritten(d) ==
  /\ \A l \in Lang : \A i, j \in 1 .. Len(d.texts[l]) :
       i < j => d.texts[l][i] < d.texts[l][j]
  /\ \A s \in InfoSlot : \A n \in ToSet(d.infos[s]) :
       Hash[n] % infoCapacity = s
  /\ \A s \in KeySlot : \A k \in ToSet(d.keys[s]) :
       (k % UintRange) % keyCapacity = s

File == Lang \union DataFile
Manager == {"text", "data"}

ASSUME DataAssumption ==
  /\ None \notin File \union Buffer
  /\ Id \subseteq Nat /\ Key \subseteq Int
  /\ Hash \in [Name -> Nat]
  /\ infoCapacity \in Nat \ {0} /\ keyCapacity \in Nat \ {0}
  /\ UintRange \in Nat \ {0}
  /\ Disk \subseteq [texts : [Lang -> Seq(Id)], infos : [InfoSlot -> Seq(Name)],
                     keys : [KeySlot -> Seq(Key)]]
  /\ \A d \in Disk : WellWritten(d)
  /\ MaxFd \in Nat

VARIABLES
  disk,             \* what the files hold; never changes
  present,          \* the files that can be opened
  spelled,          \* the language each buffer spells
  currentLanguage,
  mapped,           \* per manager: the file its mapping shows
  dataFd,           \* per manager: its descriptor; 0 for -1
  fdStat,           \* per manager: the file whose size it remembers
  opened,           \* what each descriptor is open on
  lost,             \* history: descriptors left open by an mmap that failed
  asked,            \* history: the language last asked for
  failed,           \* history: a switch failed since the last that did not
  rewritten         \* history: currentLanguage was overwritten since then

mapVars == <<mapped, dataFd, fdStat, opened, lost>>
langVars == <<currentLanguage, asked, failed, rewritten>>
dataVars == <<disk, present, spelled, mapVars, langVars>>

Fd == 1 .. MaxFd

DataInit ==
  /\ disk \in Disk
  /\ present = File
  /\ spelled \in [Buffer -> Lang]
  /\ currentLanguage = None
  /\ mapped = [m \in Manager |-> None]
  /\ dataFd = [m \in Manager |-> 0]
  /\ fdStat = [m \in Manager |-> None]
  /\ opened = [n \in Fd |-> None]
  /\ lost = {} /\ asked = None /\ failed = FALSE /\ rewritten = FALSE

-----------------------------------------------------------------------------
(* A manager gives up its mapping and makes another.                       *)

\* Mutant: the mapping is removed and its descriptor kept.
ReleasedOpen(m) == opened

\* munmap and close, if there is a mapping.
Released(m) ==
  IF mapped[m] = None THEN opened ELSE [opened EXCEPT ![dataFd[m]] = None]

Unused(m) == {n \in Fd : Released(m)[n] = None}
Lowest(S) == CHOOSE n \in S : \A k \in S : n <= k

\* open and fstat succeed.
Open(m, file) ==
  /\ file \in present /\ Unused(m) /= {}
  /\ opened' = [Released(m) EXCEPT ![Lowest(Unused(m))] = file]
  /\ dataFd' = [dataFd EXCEPT ![m] = Lowest(Unused(m))]
  /\ fdStat' = [fdStat EXCEPT ![m] = file]

Map(m, file) ==
  /\ Open(m, file)
  /\ mapped' = [mapped EXCEPT ![m] = file]
  /\ UNCHANGED lost

\* mmap fails on an open file: nobody closes it.
MmapFails(m, file) ==
  /\ Open(m, file)
  /\ mapped' = [mapped EXCEPT ![m] = None]
  /\ lost' = lost \union {dataFd'[m]}

\* open fails, hence mmap does; fstat leaves the old size.
OpenFails(m, file) ==
  /\ file \notin present \/ Unused(m) = {}
  /\ opened' = Released(m)
  /\ dataFd' = [dataFd EXCEPT ![m] = 0]
  /\ mapped' = [mapped EXCEPT ![m] = None]
  /\ UNCHANGED <<fdStat, lost>>

MapFails(m, file) == MmapFails(m, file) \/ OpenFails(m, file)

-----------------------------------------------------------------------------
(* The operations of the game.                                             *)

CreateMmap(file) ==
  /\ Map("data", file) \/ MapFails("data", file)
  /\ UNCHANGED <<disk, present, spelled, langVars>>

\* The names are compared as pointers, not as strings.
SwitchIgnored(p) ==
  /\ p = currentLanguage
  /\ asked' = spelled[p]
  /\ UNCHANGED <<disk, present, spelled, mapVars, currentLanguage, failed,
                 rewritten>>

Switch(p) ==
  /\ p /= currentLanguage
  /\ Map("text", spelled[p])
  /\ currentLanguage' = p
  /\ asked' = spelled[p] /\ failed' = FALSE /\ rewritten' = FALSE
  /\ UNCHANGED <<disk, present, spelled>>

\* The old mapping is gone and currentLanguage still names it.
SwitchFails(p) ==
  /\ p /= currentLanguage
  /\ MapFails("text", spelled[p])
  /\ asked' = spelled[p] /\ failed' = TRUE
  /\ UNCHANGED <<disk, present, spelled, currentLanguage, rewritten>>

SwitchLanguage(p) == SwitchIgnored(p) \/ Switch(p) \/ SwitchFails(p)

\* The owner of a buffer writes another name into it.
Rewrite(p, lang) ==
  /\ spelled' = [spelled EXCEPT ![p] = lang]
  /\ rewritten' = (rewritten \/ p = currentLanguage)
  /\ UNCHANGED <<disk, present, mapVars, currentLanguage, asked, failed>>

\* A file comes or goes.
Provide(file) ==
  /\ present' = IF file \in present THEN present \ {file}
                ELSE present \union {file}
  /\ UNCHANGED <<disk, spelled, mapVars, langVars>>

-----------------------------------------------------------------------------
(* The look-ups.                                                           *)

Number(id) == <<"number", id>>
Text(lang, id) == <<"text", lang, id>>
NoText == <<"text">>

\* Binary search, for as long as few entries are left.
Search(lang, id, few) ==
  LET table == disk.texts[lang]
      probe[range \in (0 .. Len(table)) \X (-1 .. Len(table) - 1)] ==
        LET min == range[1]
            max == range[2]
            mid == (min + max) \div 2
        IN  IF max - min < few THEN NoText
            ELSE IF id = table[mid + 1] THEN Text(lang, id)
            ELSE IF id < table[mid + 1] THEN probe[<<min, mid - 1>>]
            ELSE probe[<<mid + 1, max>>]
  IN  probe[<<0, Len(table) - 1>>]

\* Mutant: the search ends when one entry is left.
GetTextStrict(id) ==
  IF mapped["text"] = None THEN Number(id) ELSE Search(mapped["text"], id, 1)

\* Without a mapping the number itself is the text. The search goes on while
\* min <= max.
GetText(id) ==
  IF mapped["text"] = None THEN Number(id) ELSE Search(mapped["text"], id, 0)

\* The look-ups take the first entry of the chain that fits; at its end comes
\* InvalidOffset, here 0. Equal hashes are not enough: names are compared too.
GetKeyTableOffset(name) ==
  LET chain == disk.infos[Hash[name] % infoCapacity]
      i == SelectInSeq(chain, LAMBDA n : Hash[n] = Hash[name] /\ n = name)
  IN  IF i = 0 THEN None ELSE chain[i]

\* Mutant: the slot is computed from the magnitude of the key.
SlotOfMagnitude(key) == (IF key < 0 THEN -key ELSE key) % keyCapacity

\* key % (uint32)capacity converts a negative key to 2^32 + key.
Slot(key) == (key % UintRange) % keyCapacity

GetDataPointer(key) ==
  LET chain == disk.keys[Slot(key)]
      i == SelectInSeq(chain, LAMBDA k : k = key)
  IN  IF i = 0 THEN {} ELSE {chain[i]}

-----------------------------------------------------------------------------
Managers ==
  \/ \E f \in DataFile : CreateMmap(f)
  \/ \E p \in Buffer : SwitchLanguage(p)

Surroundings ==
  \/ \E p \in Buffer, l \in Lang : Rewrite(p, l)
  \/ \E f \in File : Provide(f)

DataNext == Managers \/ Surroundings

DataSpec == DataInit /\ [][DataNext]_dataVars

-----------------------------------------------------------------------------
DataTypeOK ==
  /\ disk \in Disk
  /\ present \subseteq File
  /\ spelled \in [Buffer -> Lang]
  /\ currentLanguage \in Buffer \union {None}
  /\ mapped \in [Manager -> File \union {None}]
  /\ dataFd \in [Manager -> 0 .. MaxFd]
  /\ fdStat \in [Manager -> File \union {None}]
  /\ opened \in [Fd -> File \union {None}]
  /\ lost \subseteq Fd
  /\ asked \in Lang \union {None}
  /\ failed \in BOOLEAN /\ rewritten \in BOOLEAN

(***************************************************************************)
(* A manager with a mapping remembers the size and the descriptor of that  *)
(* mapping and no other, whatever failed before, so that munmap and close  *)
(* take back what mmap and open gave; and all that is ever left open are   *)
(* the files on which mmap failed.                                         *)
(***************************************************************************)
Live == {m \in Manager : mapped[m] /= None}

MappingsSound ==
  /\ \A m \in Live : /\ fdStat[m] = mapped[m]
                     /\ dataFd[m] \in Fd \ lost
                     /\ opened[dataFd[m]] = mapped[m]
  /\ mapped["text"] /= None /\ mapped["data"] /= None =>
       dataFd["text"] /= dataFd["data"]
  /\ \A n \in Fd : opened[n] /= None =>
       n \in lost \/ \E m \in Live : dataFd[m] = n

(***************************************************************************)
(* Texts are of the language last asked for, each id has its own and only  *)
(* unknown ids have none. They are missing altogether only after a switch  *)
(* failed (and then asking for the language that was there before changes  *)
(* nothing), and of another language only if the name the manager keeps a  *)
(* pointer to was overwritten.                                             *)
(***************************************************************************)
TextsRight ==
  /\ \A id \in Id :
       GetText(id) = IF mapped["text"] = None THEN Number(id)
                     ELSE IF id \in ToSet(disk.texts[mapped["text"]])
                     THEN Text(mapped["text"], id) ELSE NoText
  /\ mapped["text"] \in {None, asked} \/ rewritten
  /\ mapped["text"] = None /\ asked /= None => failed

(***************************************************************************)
(* A table is found under its name and under no other of the same hash,    *)
(* and a row under its key, negative keys included.                        *)
(***************************************************************************)
DataFound ==
  mapped["data"] /= None =>
    /\ \A n \in Name :
         GetKeyTableOffset(n) =
           IF \E s \in InfoSlot : n \in ToSet(disk.infos[s]) THEN n ELSE None
    /\ \A k \in Key :
         GetDataPointer(k) =
           IF \E s \in KeySlot : k \in ToSet(disk.keys[s]) THEN {k} ELSE {}
=============================================================================
