-------------------------------- MODULE Host --------------------------------
(***************************************************************************)
(* What a host does to the core around m68k_step: it loads programs        *)
(* (Loader), stores its state in buffers (SaveState), and takes snapshots  *)
(* of a running core that it restores later (Contexts).  The three share   *)
(* no variable but the PC, which the loaders only write and the running    *)
(* core reads later, so a behaviour is a session of one of them.           *)
(***************************************************************************)
EXTENDS Contexts

CONSTANTS
    LoaderBusMod, AddrMod, MemSizes, Start, SrecLines, IhexLines, MaxLoads, MaxLines, \* Loader
    Values, Capacities, MaxSaves                                                      \* SaveState

VARIABLES
    session,
    memory_size, image, entry, format, open, base, address, current_addr, size_out, loads,
    linesRead, position, file, oldImage, oldEntry,
    cpu, latched, header, fields, length, call, p, next, outcome, saves, stored, damage, before

loaderVars == <<memory_size, image, entry, format, open, base, address, current_addr, size_out,
                loads, linesRead, position, file, oldImage, oldEntry>>
saveVars == <<cpu, latched, header, fields, length, call, p, next, outcome, saves, stored, damage,
              before>>
hostVars == <<session, contextVars, loaderVars, saveVars>>

L == INSTANCE Loader WITH BusMod <- LoaderBusMod, pc <- entry, oldPc <- oldEntry,
                          lines <- linesRead
S == INSTANCE SaveState WITH saved <- stored

ASSUME HostAssumption == L!LoaderAssumption /\ S!SaveStateAssumption

HostInit ==
    /\ session \in {"load", "save", "run"}
    /\ ContextInit /\ L!Init /\ S!Init
    /\ session # "load" => memory_size = (CHOOSE size \in MemSizes : TRUE)

LoadSession == session = "load" /\ L!Next /\ UNCHANGED <<session, contextVars, saveVars>>
SaveSession == session = "save" /\ S!Next /\ UNCHANGED <<session, contextVars, loaderVars>>
RunSession == session = "run" /\ ContextNext /\ UNCHANGED <<session, loaderVars, saveVars>>

HostNext == LoadSession \/ SaveSession \/ RunSession
HostSpec == HostInit /\ [][HostNext]_hostVars

(***************************************************************************)
(* Properties, with RestoredIsSafe of Contexts.                           *)
(***************************************************************************)

\* Type correctness: the loaders write inside bound memory only, and no damaged
\* save state makes the context invalid.
HostTypeOK == L!TypeOK /\ S!TypeOK

\* After a load every byte of memory is what the file says it is, wherever its
\* records lie, overlap, wrap or leave memory, and every other byte is as before; the
\* PC is the entry that the records name; and the size m68k_load_bin reports is the
\* number of bytes stored, also across the end of the address space.
LoadedIsFile == L!ImageIsFile /\ L!EntryPoint /\ L!SizeIsStored

\* A state stored and read back whole, or with fields of a newer library, restores
\* every field, whatever the processor did in between; one with a wrong header, field
\* length or model number is refused.
RestoresOrRefuses == S!RoundTrip /\ S!DamageRefused

\* What a refused state, or one cut between two fields, leaves in the context is the
\* stored fields up to some point and the old ones after it; nothing behind the point
\* of refusal is applied.
AppliedIsPrefix == S!AppliedIsPrefix
=============================================================================
