# SweRV EH1 with the OVI bridge: TLA+ models, checks and proofs

The repository is the SweRV EH1 RISC-V core (SystemVerilog, `design/`) and, added to it, a
bridge to an external vector unit over the Open Vector Interface (`ovi/`), with the hooks it
needs in `design/swerv.sv`, `design/exu/exu.sv` and `design/dec/dec_decode_ctl.sv`. This
directory holds models of its protocols, their TLC runs and TLAPS proofs. `PROJECT.json` is
the index: the runs, the source lines every definition stands for, the faulty variants each
property rejects, the hazards and the theorems.

Everything here is synchronous hardware. A **step** of a model is **one rising clock edge**: a
register is a variable, a wire is an operator on the unprimed variables, the inputs of the
block are chosen by `\E` in `Next`. Nothing is "atomic" beyond what one edge does: the
interleavings that matter are of stages and machines that all move at each edge, each on what
it saw before it.

## 1. Inventory

| Part | State | Operations | Interacts with | What is hard | What makes it correct |
|---|---|---|---|---|---|
| OVI bridge `ovi/src/ovi.sv` | FSM of 4 states, issue credits, packet counters, load and store chunk buffers, pulses | issue, answer, move packets of a load or a store, count credits | core bus (issue, petitions, answers), VPU bus (issue, credits, memop, load, store) | one-cycle pulses, a counter read before its update lands, credits coming back at any time, vectors that do not fill a chunk or a packet | every packet once and in order, with its own data; completion after the last; credits accounted for |
| Harness `automata.sv`, `top.sv` | instruction memory and pointer, countdowns of a one-word memory | issue the program, answer petitions | bridge | moves on without looking again | no instruction skipped, the program ends |
| VPU (external: the submodule is empty) | - | executes, pulls and pushes chunks under credits | bridge | free delays | what the bridge relies on |
| Vector hooks `swerv.sv:1001-1068`, `exu.sv:380-482`, `dec_decode_ctl.sv` | vl/sew registers, instruction on the bus, decode stall | vsetvli, issue at decode, petitions into LSU dc1, answers from the load data | bridge, decode, LSU | flushes, outstanding scalar loads, room of the wrong buffer | answers belong to petitions; no vector work for flushed instructions |
| LSU pipe and store buffer `lsu_lsc_ctl`, `lsu_stbuf`, `lsu_dccm_ctl`, `lsu_dccm_mem`, `lsu_ecc` | dc1-dc5, entries with pointers and flags, words read and forwarded, DCCM and PIC contents | issue, DMA access, forward, merge, allocate, commit, flush, drain, repair | decode, TLU (commit and flush), DMA, bus buffer (freeze) | read in dc1, search in dc2, merge in dc3, commit in dc5 while entries drain | program order for every byte; committed bytes reach memory once |
| LSU bus buffer `lsu_bus_intf`, `lsu_bus_buffer` | input buffer, entries with state and age, output buffer, timers, freeze pointer | request, merge, forward, allocate, send, answer, hand out and take back load tags | pipe, decode, AXI slave | out-of-order slave, entries chosen before they are written, divided clock, flushes | one owner for an entry, program order per bus word, device order, tags come back once, everything drains |
| Address check, triggers, clock domains `lsu_addrcheck`, ... | none of its own | combinational | LSU | - | - |
| Instruction buffer `dec_ib_ctl` | 4 entries and their valid bits | write 0-2, shift 0-2 | aligner, decode | writes and shifts in one cycle | instructions in order, none lost or doubled |
| Decode `dec_decode_ctl` | pipe of packets, CAM of non-blocking loads, dependency state | issue i0/i1, stall, bypass, CAM | all | two pipes, flush, late load data | one writer per register at a time; no stale write |
| TLU `dec_tlu_ctl` | CSRs, halt/resume/pause FSM, exceptions | commit, flush, trap, halt | all | halt racing flush, interrupt, resume | halted only when idle; every request answered |
| Fetch `ifu_ifc_ctl`, aligner `ifu_aln_ctl` | fetch FSM, count of free buffers; 3 buffers with read and write pointers | fetch, miss, flush; align 0-2 instructions | I-cache, decode | counters that must agree across flushes | no overrun; the stream is the memory's |
| I-cache and ICCM control `ifu_mem_ctl` | miss FSM, fill buffer, replacement | hit, miss, critical word, fill, error | bus, fetch | a flush or a second request during a fill | no wrong line; the miss ends |
| Branch predictor `ifu_bp_ctl` | BHT, BTB, RAS | predict, update | fetch, exu | performance only | - |
| Execution `exu*` | divider FSM | ALU, multiply, divide | decode | cancel and restart of a division | quotient and remainder |
| DMA controller `dma_ctrl.sv` | queue of 2 or 4 entries with flags and three pointers | accept, issue to DCCM/ICCM, respond, error, debug access | LSU, IFU, DBG, AXI | read and write channels at a full FIFO, stall counter | one response per request, in order |
| Debug `dbg.sv`, DMI | halt/command FSM, system-bus FSM | halt, resume, register/memory commands, sbaccess | TLU, DMA, AXI | requests racing | every command is done or errs |
| PIC `pic_ctrl.sv` | gateways, enables, thresholds | claim, configure | TLU, LSU | edge-triggered sources | highest pending enabled one wins |
| Bus converters `lib/axi4_to_ahb.sv`, `ahb_to_axi4.sv` | command, data and wrap buffers | convert | bus | back pressure in both directions | same accesses, one response each |
| Test bench `testbench/` | LSU-to-DMA bridge | route | LSU, DMA | order of answers | none lost |
| Library cells, configuration, vendored `tools/sis` | - | - | - | primitives | - |

The hazards of each part, with the line where each bites, are listed in `PROJECT.json`.

## 2. What is modelled

| Module | Models | Kind |
|---|---|---|
| `Ovi`, `Automata`, `OviTop` | the bridge, the core of its harness, their wiring with the VPU | component, component, composition |
| `Vpu` | the vector unit, as far as the bridge relies on it | external |
| `VectorTransfer` | what a vector instruction is to the core | abstract specification of `OviTop` |
| `SwervOvi` | the bridge and the VPU inside the core: decode, load/store pipe, bus | composition with `Ovi` and `Vpu` |
| `LsuStbuf` | load/store pipe, store buffer, DCCM and PIC port | component |
| `LsuBusBuffer` | bus side of the load/store unit with an AXI slave | component |
| `NbLoadCam` | decode: non-blocking loads, both lanes to write-back | component |
| `DmaCtrl`, `DmaQueue` | the DMA controller; the queue it promises to be | component, abstract specification |
| `IfuIfc`, `IfuMem`, `IfuAln` | fetch control; control of the instruction cache; aligner and instruction buffer | components |
| `IfuAddr`, `InstrStream` | addresses of parcels; the stream of instructions decode is promised | helpers, abstract specification |
| `Frontend` | the three as `ifu.sv` and `dec.sv` wire them | composition |
| `OviProofs` | lemmas on the bridge and the VPU, whatever core they are in: arithmetic, types, the chunk of a load | proofs |
| `OviTopProofs`, `SwervOviProofs`, `NbLoadCamProofs`, `LsuStbufProofs`, `LsuBusBufferProofs`, `DmaCtrlProofs`, `FrontendProofs` | theorems | proofs |
| `MC*` | constants of the runs | - |

### OVI bridge in its harness: `Ovi`, `Automata`, `Vpu`, `OviTop`, `VectorTransfer`

* `Ovi` has one action per state of the FSM (`Idle`/`Issue` for WAIT_ISSUE, `Answer`,
  `ReceiveData`, `SendData`). `Credits` keeps the order of the two non-blocking assignments
  of the credit counter, `CountPetition` the one-cycle lag of `sent_packets`, `PacketsOf` the
  16-bit width of `vl << instrlogbits`. Data are tokens (a chunk is `<<sb_id, n>>`, a word is
  the value of the harness counter LMEM); the widths are parameters.
* `Automata` is `automata.sv`; its program and `vl`/`sew` are constants instead of `$readmemh`
  files. `Vpu` is external: only what the bridge and `interfaces.sv` rely on, with free delays.
* `OviTop` wires the three (`top.sv`) and adds history variables; `collided` counts the credits that came back in the cycle of an issue. `VectorTransfer` says what a
  vector instruction is to the core (issue, move exactly its packets, complete);
  `OviTop` implements it by the mapping busy = not WAIT_ISSUE, moved = petitions the core saw.

### The bridge in the core: `SwervOvi`

One step is one clock edge of decode, bridge (`Ovi`), VPU, dc1-dc5 and the bus. Decode holds one
instruction in `slot`; `dec_i0_decode_d` and `vpu_stall` are the stall of `dec_decode_ctl.sv`
with its register; `lsu_p` and `dc1_in` are the multiplexers of `swerv.sv` and `lsu_lsc_ctl.sv`, in
which a petition has precedence over decode and nothing behind it that would hold or retry it;
`core_response` is what `swerv.sv:1066-1068` gives the bridge. Of the scalar program only its loads are kept: they
share the pipe and the answers. Flushes, a load that finds its data in the DCCM or in the bus buffer
(`lsu_bus_buffer.sv:906`), and bus errors are *mishaps*, bounded by `MaxMishaps`; each can lose a petition, which
`lost` counts: the core then never answers it, and the bridge, which has no timeout, waits for ever. What is
claimed of a vector load is relative to `lost`.

`ScalarDrained = TRUE` lets decode take a vector load only when no scalar load is open. The code has no such rule:
`vector_scalar` shows what happens without it (section 6), `vector_core` that nothing else goes wrong.
The bus answers in order here, and a DMA access is not followed past dc1.

### LSU pipe and store buffer: `LsuStbuf`

One step moves dc1-dc5, the buffer, the DCCM/PIC port and the freeze. `Edge` has a part per
block: `StbufEdge` (allocate, decide, pop), `ArrayEdge` (drain), `LateEdge` (dc4, dc5, which
run on in a freeze), `EarlyEdge` (dc1-dc3 with read and forwarding), `FreezeEdge`,
`FlushEdge`. Inputs: the packet decode or the DMA sends, a flush from the commit point with or
without a kill of dc5, a branch of either pipe in e3, single-bit errors, the answer that ends a
freeze. A word in a bank that is written in the same cycle reads `Garbage`: a guard that let
a drain and a read meet would show. `mem` is the history of committed stores and DMA writes.

Not in it: double-bit errors (they trap; here the trap would be a flush), the masks of PIC
registers, triggers, and the alignment of load results. `flush_dc5` is taken as a commit-point
flush (`kill => flush_lower`), which is how `dec_tlu_ctl.sv` produces it.

### LSU bus buffer: `LsuBusBuffer`

`PipeEdge` (dc2-dc5 requests with `lsu_busreq_dcX`, forwarding), `IbufEdge`, `BufEdge`
(IDLE/WAIT/CMD/RESP/DONE), `AgeEdge`, `ObufEdge`, `FreezeEdge`, `BusEdge` (external: a slave
that accepts and answers in any order). A store writes its own number to its bytes, so a load's
data name the stores it saw; `expect` is the history of what program order gives it.
`outstanding` is the set of tags of non-blocking loads decode waits for.

Not in it: the AHB build (`RV_BUILD_AHB_LITE`), `dec_tlu_cancel_e4`, sign and alignment of load
data, counters for performance. A bus word has side effects or not (the MRAC has it per
region of 256 MB).

### Non-blocking loads in decode: `NbLoadCam`

The packets of both lanes in e1 to write-back (`pe1` to `pwb`), the CAM of `dec_decode_ctl.sv` with its entries
(`valid`, `wb`, `tag`, `rd`), the stalls of decode for a register a load still writes, the bypasses, the
cancel of an entry by a younger writer, and the three write ports of `dec_gpr_ctl.sv`. The bus buffer is an
environment (`bus_loads`): it gives a free tag in dc3, loses the load to a flush or a kill, and answers the others in any order.
The content of a register is only whether it is that of its last committed writer (`fresh`), and `misread` remembers that an
instruction was decoded with an older one.

`MCLoadTags` puts the two ends of a load in one run: a behaviour moves either the bus buffer or decode, each in
an environment that does what the other may do. What the one assumes (tags come back once, a tag in use is not
given away) is what the other is checked for.

Not in it: secondary ALUs, multiply, divide and CSR stalls. The instruction buffer is in `IfuAln`.

### DMA controller: `DmaCtrl`, `DmaQueue`

Three pointers run through the queue: to the next free entry, to the next one to be sent to the memories, to the next one
to be answered. `Entry` is what one clock does to one entry; `dma_rvalid` names the entry by the delayed pointers
`rdp_q`, two clocks for the ICCM and three for the DCCM. `BusEdge` is the AXI side, on a clock that is an enable of the core's. `DmaQueue`
says what it is for: requests are performed one at a time in the order in which they were taken, each once, those with
an error not at all, and answered in that order with what their own access returned.

The memories are ready while the debug module has a command, because it sends one only to a halted core:
`dma_dbg_cmd_done` of a write is given when the entry is there (`dma_ctrl.sv:330`), performed or not, and
`DmaImplementsQueue` rests on that. `rdp_q` keeps the pointer only with a read (without one it is not looked at).
The depth is 2, 4 or 8, since the pointers wrap by their width. Not in it: ECC errors of the memories, `stall_dma`, the abort
by `ndmreset`, register commands of the debug module, alignment (an error is a request that names no memory), and the shifts of data.

### The front end: `IfuIfc`, `IfuMem`, `IfuAln`, `Frontend`, `InstrStream`

A fetch is looked up in f1 and answered in f2. `IfuIfc` decides what is looked up next: the next group, the target of a predicted branch, the
path of a flush, or, after a miss, the group again when its critical word or its line is there. It counts the aligner's three buffers
in `fb_write_f1` (the set of its bits) without seeing them. `IfuMem` is the miss state machine, the bypass of the critical word and the
commands and beats of a line; `IfuAln` is the three buffers (valid parcels and pc move, the data stay in a ring with two pointers
and an offset per place), the cut into at most two instructions a clock, and the instruction buffer. `Frontend!Clock` is one edge of all of them;
the signals between them are a record `w`.

Data is its address: a parcel, a beat and a group carry the place they were read from, so a wrong line, a group used twice or an offset that is off shows as
a parcel that is not the next one. `InstrStream` is a queue of parcels: each clock the instructions that decode takes (`took`, up to two, whole) leave, and no other parcel, and the parcels of at most one group arrive, which go on where
the last ones ended or at the target of a branch the predictor knows; a flush empties it. `Frontend` implements it with
`held`, what the instruction buffer and the aligner hold as decode will see it, and the histories `next` and `took`.

Inputs: flushes with and without a new path (`Redirect`, `Halt`), decode (0 to 2 instructions), the predictor, the tags, the stall of the DMA
controller, and a bus that lets commands wait and answers in any order. The tags may say anything, but for: the line that is on its way is not in the cache,
the line of the last miss is (`filled`), and in the clock after a write of the cache they are read at the index of the
missing line, and miss (`sel_mb_addr_ff`). Registers nobody can read any more are set to one value.

Not in it: bus, parity and ECC errors with their state machine, faults of regions, `fence.i`, DMA and debug accesses to the ICCM and `ic_dma_active`,
a bus clock slower than the core's, instructions of the debug module in `dec_ib_ctl`, ways and replacement, the fetches before the first flush
(the core comes out of reset halted), and the expansion of compressed instructions. The state `STALL` of the code is never entered.

### Faulty variants

A definition whose name extends the next one's (`last_packet_late` before `last_packet`), or
that is marked `faulty`, is a plausible bug of that definition. Each property of each passing run is
violated when the variant listed in `PROJECT.json` takes the definition's place.

## 3. Runs

| Run | Instance | What it shows |
|---|---|---|
| `ovi_widths` | chunks of 4 packets, every element width, 1-6 packets, the code's 4 issue credits, one store credit, two delays, store buffer of 3; all programs of two instructions, store-load-store, the shipped programs (`memfiles/`) and one of 13 instructions; the VPU owes any number of credits and returns them in any cycle | all packets once with their data, answers match petitions, store credits conserved, the issue credits off by the collisions of `ovi.sv:166` and `:249` and nothing else, modulo 16; lockstep, no instruction skipped, every program ends, implements `VectorTransfer` |
| `ovi_fullchunk`, `ovi_bytes`, `ovi_subpacket` | one vector each | three disagreements (section 6) |
| `vector_core` | chunks of 2 packets, vectors of 3, scalar loads, one mishap (flush, error or hit), DMA, freezes | the bridge takes what decode issues; no petition disappears unaccounted; the data of a chunk is its own; an instruction ends unless a petition was lost |
| `vector_scalar` | the same with a scalar load open when a vector load is decoded | the fourth disagreement |
| `stbuf` | 2 words of 2 bytes in 2 banks, 4 entries, byte/word/two-word stores and loads, a store to a PIC register at the same offset, DMA stores that complete a word they read or write two, repairs of single-bit errors, an external load that may freeze the pipe | program order for every byte that is read, whole-word drains undo nothing, entries are all decided, a store finds room, and no core packet between a DMA packet and the end of the pipe |
| `bus_mixed` | 8 entries (the real depth), stores and loads in a bus word, a device, unposted accesses, bus errors | loads see program order, memory ends as the program left it, devices in order |
| `bus_drains` | 4 entries, bus clock slower than the core's, loads of two entries, fair slave | owners and ages of entries are sound; everything is sent and answered in the end |
| `load_tags` | bus buffer of 4 entries with flushes, and decode with 2 tags, one register and 3 instructions | one owner per entry, answers have owners, tags come back once, only its own answer thaws a load; one CAM entry per tag, registers settle, readers see program order |
| `dma_ctrl` | queue of 2, divided bus clock, refusals, DCCM and ICCM, debug writes and a debug read with an error | implements `DmaQueue`; every request is answered |
| `fetch` | groups of 2 parcels, lines of 2 groups (4 beats): a cached line, an uncached one, the ICCM; instructions that lie across groups, a branch out of the middle of a group | implements `InstrStream`; fetch control counts the buffers; fetching goes on |

`EntriesSound` is a conjunction of named parts (type, one owner per entry, one-hot ages).

### Bounds and why they are enough

* *Widths.* The bridge compares and divides counters by `SubPackets`; 4 packets a chunk with 1
  to 6 packets give a first, a middle and a last packet of a chunk, of a short chunk and of a second chunk.
  Words have 2 bytes and bus words 2 words: a store covers part of a word, a word, or two, a load likewise;
  no logic looks at a third byte in another way than at the second.
* *Depth.* The store buffer has 4 entries in the runs, as few as let a dual store be
  behind another (`full` is `DEPTH - 2`), and the pointers wrap. The bus buffer has 4, or 8 where the run allows it; with 4
  the limit `DEPTH - 1` is reached by requests of two entries. The DMA queue has 2: it is full, empty and wraps, and with a request on its way
  the guard of `fifo_full_spec` counts.
* `MaxInFlight = 3` packets in dc1-dc5 (`LsuStbuf`): every pair of stages and a third
  packet between or around them; the buffer holds more than that. `MaxOps` = 3 or 4 accesses
  (`LsuBusBuffer`) bounds the run, not the buffer: up to 8 entries are asked for by 4 dual accesses.
* `CamInFlight = 3` instructions and one register (`NbLoadCam`): the load, the reader or younger writer, and a third; a second register
  is never compared with the first. Two tags suffice for a tag that is given away again while the other is out.
* `MaxDecoded = 2`, `MaxMishaps = 1` (`SwervOvi`): a vector instruction and what follows or precedes it, and one thing that goes wrong in it.
* `TIMER_MAX = 1` (7 in the code): the timers only delay; with 1 both "runs on" and "at its end"
  happen, and a transition comes earlier than in the code in some of the executions only.
* `Values = {0, 1}` on one watched byte: the pipe does not look at data. With loads of the PIC register and of the DMA besides (627,976 states) the five properties of `stbuf` hold as well.
* *Front end.* A group of 2 parcels is entered at its begin or its end, and its last parcel may be half an instruction; up to four of the window's parcels lie in two groups. A line of 2 groups has
  a group that was asked for first and another, whichever of the two; 4 beats in any order put the two halves of the critical word first, last and apart. The three lines lie one behind
  the other, so fetching runs from the cache into uncached memory, the ICCM and round again. With groups of 2 a clock empties a buffer more often than with the code's 8, and the account of the buffers moves in all its ways; several instructions of one buffer come with
  `PARCELS = 4`, for which `ImplementsStream` and `BuffersCounted` hold too (`ADDRS = 16`, `Long = {1, 3, 8, 10, 15}`, a branch from 2 to 7, the second line in the ICCM). The bus of the run takes each command at once and keeps its answers as long as it likes; with a bus that lets commands wait too (`BusWaits = TRUE`, 217,098 states) the three properties hold as well.
* `DrainCycles = 1`, `dec_tlu_dma_qos_prty = 1`: one refusal and then the stall, which is how the counter is reset.
* `MaxCredits`, `SbIds`, `VpuLatencies`: two delays, odd and even, let each pulse meet every phase of the six-cycle memory. The 4 issue credits run out while the VPU keeps
  what it owes, and let an issue meet a credit: with 13 instructions twelve such collisions take the counter from 4 past 15 to 0, after the last issue. With 14 the wrap can come before it, and TLC finds an
  instruction skipped and a program that never ends, so 13 is the exact bound. How many credits are owed is not bounded.

### Fairness

* `FairSpec` of `OviTop` is `WF_vars(Next)`, the clock does not stop, and `[]<>(vpu_owed = 0 \/ vpu_credit)`, the VPU does not keep
  what it owes for ever. Its delays are finite by its own module.
* `FairSwSpec` of `SwervOvi` is the clock, `[]<>~lsu_stbuf_full_any` (the store buffer drains again and again: the core sends nothing
  else while decode waits for the bridge) and `[]<>(bus = <<>> \/ answer # NoPacket)` (the bus answers).
* `FairSpec` of `LsuBusBuffer` adds `SF_vars(BusServes)`: a slave that again and
  again, on a bus clock edge, takes what is offered and answers one read and one write that it owes.
  Weaker would be a slave that may leave an access for ever, under which no buffer drains; nothing is
  assumed about the order or the delay of the answers.
* `DmaSpec` has `WF_dmaVars(DmaBusTick)`: the bus clock goes on ticking and a master takes its answers. That the core does
  not refuse for ever is not assumed but modelled: `dma_stall_any` stalls decode, and a core stalled for `DrainCycles` is ready.
* `FrontendLive`: the clock does not stop (`clk` tells a clock that changes no register from none at all), a command is accepted and a beat that is owed comes, in the end, and the DMA controller
  some day leaves the ICCM alone. The last is needed: `dma_iccm_stall_any_f` holds up the fetch of the critical word, which is tried again every third clock (`ifu_ifc_ctl.sv:118`), and a stall in just
  those clocks would meet every try; the requests of a DMA master end. Nothing is asked of decode, the tags or the predictor.
* `LsuStbuf` states no liveness, since a load to the head's
  bank in every cycle may hold the drain for ever (`lsu_dccm_ctl.sv:146`).

## 4. Proofs

The theorems hold for every value of the constants, under the named assumptions of the modules (`OviAssumption`, ...), which TLC evaluates
in the runs. No theorem rests on another tool or on an unproved step.

| Theorem | Says | Extra assumptions |
|---|---|---|
| `OviTopProofs!TypeCorrect` | `Spec => []TypeOK` | - |
| `OviTopProofs!CreditsAreAccounted` | `CreditsAccounted`, whenever the VPU returns its credits | - |
| `OviTopProofs!StaysInLockstep`, `NoneSkipped` | `Lockstep`, `NoInstructionSkipped` | the counter holds |
| `OviTopProofs!AllPacketsMove`, `AnswersAreOwn` | `ExactlyAllPackets`, `AnswersMatchPetitions` | the counter holds, whole packets, no zero delay |
| `OviTopProofs!TransferImplemented` | `Spec => ImplementsVectorTransfer`: the refinement | the same |
| `OviTopProofs!StorePetitionsAreInOrder`, `StoreCreditsComeBack`, `EveryChunkHasAnEntry` | `StorePetitionIsNextPacket`, `StoreCreditsConserved`, `StoreBufferNeverOverrun` | the counter holds, chunks fit, no zero delay |
| `OviTopProofs!AnnouncedDataIsTheAnswers` | `AnnouncedDataIsFresh` | the counter holds, whole packets, whole elements, short vectors, no zero delay |
| `OviTopProofs!AllElementsAreAnnounced` | `AllElementsAnnounced` | the counter holds, chunks have packets, the end inside a chunk, no zero delay |
| `SwervOviProofs!CoreTypeCorrect`, `DecodedIsTaken` | `SwTypeOK`, `VectorTakenWhenDecoded` | - |
| `SwervOviProofs!NoPetitionDisappears` | `PetitionsAccounted` | scalar loads drained, two tags, whole packets |
| `SwervOviProofs!LoadedDataIsItsOwn` | `LoadedDataIsOwn` | the same, whole elements, short vectors |
| `NbLoadCamProofs!CamTypeCorrect`, `CamOneEntryPerTag`, `CamRegistersSettle`, `CamReadersSeeProgramOrder` | the invariants of those names | - |
| `LsuStbufProofs!DmaIsAlone`, `StoresFindRoom`, `EntriesAreDecided` | `NoCoreAheadOfDma`, `StoreFindsRoom`, `EveryEntryDecided` | - |
| `LsuStbufProofs!ReadsFollowProgramOrder`, `WholeWordsDrain` | `ReadsProgramOrder`, `DrainsWholeWords` | - |
| `LsuBusBufferProofs!EntriesHaveOneOwner`, `BusBufferNeverFull` | `OneOwner`; what is taken, reserved and still to come fits in the buffer | - |
| `LsuBusBufferProofs!EntriesAreSound`, `AnswersFindTheirOwners` | `EntriesSound`, `AnswersHaveOwners` | - |
| `LsuBusBufferProofs!DevicesAreInOrder`, `TagsAllComeBack` | `DevicesInOrder`, `TagsComeBack` | - |
| `LsuBusBufferProofs!ThawedByItsOwnAnswer` | `NeverThawedByAnother`, an action property | - |
| `LsuBusBufferProofs!LoadsFollowProgramOrder`, `MemoryIsTheProgram` | `LoadsSeeProgramOrder`, `MemoryFollowsProgram` | - |
| `DmaCtrlProofs!QueueInTheRing`, `ImplementsItsQueue` | the invariant below; `DmaImplementsQueue`, the refinement of `DmaQueue` | - |
| `FrontendProofs!FrontInvariant`, `BuffersAreCounted`, `BufferForEveryFetch` | the invariant below; `BuffersCounted`; never more than three fetches taken or in f2 | - |
| `FrontendProofs!StreamInvariant`, `StreamImplemented` | the invariant below; `ImplementsStream`, the refinement of `InstrStream` | - |

### The extra assumptions of the bridge

* *The counter holds* (`CounterHolds`): no program has more than 17 - `MaxCredits` instructions, 13 with the code's 4 credits; the shipped ones have 7 and 5. Nothing is assumed
  of the time at which a credit comes back. One that comes back in the cycle of an issue overwrites the decrement (`ovi.sv:166`, `:249`), and the counter is one too high from then on.
  Every issue but the first may meet one, so after twelve the 4 bits wrap to 0: then the automata skips the instruction it was about to issue, and the bridge never issues again.
  `CreditsAreAccounted` needs no such bound; it says how far the counter is off in a program of any length.
* *Whole packets* (`WholePackets`): every vector of the program has at least one packet. A shorter one is the disagreement `ovi_subpacket`.
* *No zero delay* (`0 \notin VpuLatencies`): the harness answers stores too, nine cycles after the petition. With delays of zero the petition
  of a load that follows comes before that answer and turns it into one of its own. TLC finds this with delays of 0 and 1 and nothing of the kind with 1, 2 and 3.
* *Chunks have packets* (`ChunksHavePackets`): the last chunk of every vector holds a packet. The bridge counts whole packets (`ovi.sv:170`), the VPU sends
  as many chunks as its elements need; one byte behind a full chunk is a chunk without a packet, and its credit never comes back. It implies whole packets.
* *Chunks fit* (`ChunksFit`): that, and no vector of more chunks than `BUFFER_STORE` has entries (32, `ovi.sv:64`) or its 6-bit index counts (`ovi.sv:38`):
  256 elements of 64 bits in the code.
* *Whole elements* and *short vectors* (`WholeElements`, `ShortVectors`): a chunk is a multiple of 64 bits, as 512 is, and `vl` shifted by the element width
  stays below 2^16, the width of the shift that gives the packets. Every vector that fits satisfies both.
* *The end inside a chunk* (`EndInsideChunk`): no vector fills its last chunk. One that does is the disagreement `ovi_fullchunk`.

The bridge in the core (`SwervOviProofs`) needs neither a bound of its program nor one of the delays. Besides whole packets, whole elements and short vectors (of its own
program) it needs:

* *Scalar loads drained* (`LoadsAreDrained`): no vector load is decoded while a scalar load is open. Nothing in the core sees to that, which is the disagreement
  `vector_scalar`; the theorems say that it is the only thing missing.
* *Two tags* (`TellsApart`): more than one scoreboard id, else the last store of an instruction, in dc5 in the first cycle of the next, counts as one of that one. The id has 5 bits in the code.

The constants of `vector_core` satisfy these, those of `ovi_widths` all of the ones above; `ovi_fullchunk` denies `EndInsideChunk`, `ovi_subpacket` the whole packets.

### The arguments

* `OviTopProofs`: `IInv == TypeOK /\ Lockstep /\ CreditsAccounted /\ CollisionsBounded /\ ReadyToIssue`. `CreditsAccounted` is inductive with the types: the credits that
  are left (`credits_left`) move as the counter does, and never below 0, since the bridge issues only above 0. `Lockstep` alone is not: that
  the harness and the bridge issue together rests on what the harness saw a cycle earlier (`ReadyToIssue`), that on the counter not wrapping to 0 in between
  (`RoomInTheCounter`), and that on there being fewer collisions than instructions issued (`CollisionsBounded`: the first issue meets no credit, each later one at most one). `LockstepStep`
  goes machine by machine: for each state of the VPU, what the bridge and the harness do at that edge.
  To this it adds `Counted`: where the counters stand in every phase of an instruction (`PetitionsCounted`, with the petition that is on the
  bus but not yet counted), how many answers the memory still owes (`AnswersCounted`), and how many cycles the answer of a store may still
  take in each phase (`StoreAnswersOver`). One lemma per phase (`IssuePhase` to `SendPhase`). The refinement follows: every step is an issue, a move, a completion or a stutter of `VectorTransfer`.
  The data need what the counts are of. `Issued`: the instruction in progress is one of the program, its scoreboard id the one before the next, and the memory
  has given one value per load packet. `StoreInv`, for a store that moves: credits, chunks in flight and chunks whose last petition has left add up to `StoreCredits`
  (`StoreCounts`), and entry c of the buffer holds chunk c of this instruction (`StoreData`). `LoadInv`, for a load: place s of the buffer holds the answer for
  packet s of the chunk being filled, the announced elements are those of the chunks before it, and `el_id`, `el_count` name the chunk on the VPU bus, the last one
  with the elements behind the last full chunk. The chunk itself does not depend on the core around the bridge (`OviProofs`: `ChunkCounts` for the
  counters, `ChunkHolds(w)` for a buffer that holds the words w, `ChunkSends` and `WordsStored` for a step of SEND_DATA); that `el_id` elements are that many packets is arithmetic of `\div`
  (`DivUnique`, `DivSum`, `PacketsInChunks`, `ChunkIsOwn`).
* `SwervOviProofs`: `SwIInv == Typed /\ InStep`. `InStep` relates the state of the bridge, the registered stall and the state of the VPU; the
  register covers exactly the cycle between the bridge's return to WAIT_ISSUE and the end of its completion.
  `Petitions` follows the petitions. A petition is raised only when dc1 to dc3 are empty, and so meets nothing (`Apart`: at most one packet of a vector in the pipe, no
  scalar load near it that could freeze it); how far the instruction has come when its packet is in dc1, dc2, dc3 (`Phases`) shows that at most one store outlives it, into
  the first cycle of the next (`Owned`, with the tag that tells the two apart). Loads are out only in SEND_DATA (`Awaited`): the last answer finds pipe and bus empty
  (`LastAnswer`). `Accounted` is then a count over one edge (`PipeCount`, `BusCount`, `LostCount`, `LoadCount`), which holds for all instructions but needs `Drained` for the answers.
  `Data` is about their order. `InOrder`: while nothing was lost, the vector's loads on the bus are its end, and each has the number that its distance from that end and the count of
  those that left the pipe give it; with `Accounted` the oldest is the packet due next (`AnswerOrderStep`). `Chunks` puts it into the chunk, with the lemmas of `OviProofs`.
* `NbLoadCamProofs`: `CamIInv`. `RegistersSettle` needs that an entry whose load is still in the pipe waits with the register of that load (`PipeWaits`), that an
  entry of a committed load has its `wb` and its register (`Answered`), that an entry's tag is in use (`Held`), that there is one load/store pipe (`OneLoad`), and that
  only a blocking load freezes (`FrozenBlocks`).
* `LsuStbufProofs`: `BufferOK`. The buffer is a queue: for some n its n entries from RdPtr on are the valid ones and WrPtr is n further (`QueueOf`; the
  arithmetic of the pointers is `Wraps`, the count of the valid entries `CountValid`). `Room(n)`: for a store in dc1, dc2 or dc3, what it and all packets
  ahead of it may ask for fits. `DecidedOnce`: the entries that are neither marked to drain nor flushed are those of dc4 and of dc5, which are disjoint.
  A step never writes a valid entry because of `Room`, so it never overwrites an undecided one. `Alone` is the invariant of the DMA.
  The data add `DataInv`. The two properties are not inductive: one speaks of the entries that drain, the other of those that do not, and what dc3 has read says nothing of the
  entries under it. `DataOK` has one view for both, of one byte of one word at a time. The entries are layers over the word in the DCCM or the PIC, v[0] (`Layers`): v[k + 1] is what an
  instruction behind entry k sees. The first d are decided, those from d to e belong to dc5 and the others to dc4 (`Ordered`). Memory is v[d] and dc3 has read v[n] (`Sees`). An entry
  shows on the bytes it did not store what was there before (it is a whole word), which is why a drain undoes nothing. The entries of an instruction flushed in dc4 count as dead at once
  (`doomed`), one cycle before they are marked; then nothing of the core is behind them that could have seen them (`StagesOK`).
  One lemma per part of the clock edge: `HeadLayer` (a drain makes v[1] the new v[0]), `OldLayer` (a flush cuts the layers from d, from e or nowhere, `cut`), `NewLayer` (dc3 lays the
  word it made, which by `MadeByte` changes its own bytes only), `OrderedStep` (d and e move), `MemStep` (memory becomes the new v[d]: a store commits both of its entries, which are two
  words, or the DMA writes when nothing is undecided) and `ReadStep` (what dc2 takes along: the word it read in time, `ReadInTime`, under the newest entry, `ForwardEntries`, under dc3's
  own word, `ForwardDc3`).
* `LsuBusBufferProofs` builds one invariant in five layers, each proved to be kept with the help of those below it.
  `OwnersInv`: decode stops in time (`Room`), so the entries chosen in dc3 are free (`WrPtrsAreFree`); the tag of the input buffer, the
  entries reserved in dc4 and dc5 and the entries in use never meet (`Owners`).
  `BufferInv`: packets are numbered in program order down the pipe (`ProgramOrder`), of any two entries that wait just one is the
  older by the age bits (`Ages`), and the output buffer names entries (`OutputBuffer`); that the pointers are one-hot follows.
  `AnswersInv`: the halves of a load point at each other (`Halves`), those in one bus word move from state to state together (`Together`), the output buffer holds what the entry it names
  asks for (`Sent`), and each transaction of the slave is that of one entry that waits for it (`OnBus`).
  `OrderInv`: what is in the buffers is older than what is in the pipe, and ages follow the program (`Buffered`); a device access that is sent is older than those that wait (`InOrder`).
  A device access must not have two halves, of which neither is first: hence the clauses of `BusBufferAssumption` about side effects, which state what `lsu_addrcheck.sv` traps
  (a misaligned access to a region with side effects) and that regions are larger than a bus word.
  `TagsInv`: the tags that decode waits for are those of the loads in dc4, in dc5, and of the low halves in the input buffer and the entries (`outstanding = Held`), one owner each (`TagTaken`);
  two entries of one load are its halves (`Alone`), and an access that is all answered is given back in that very bus clock (`JustDone`), so no tag is given back twice.
  Beside these, on `BufferInv` alone, `Frozen`: until it is answered, the request of the load that froze the pipe is in dc3, or in dc4, dc5 or the input buffer with `FreezePtr` as its entry, or in that
  entry. An entry that is answered is in use and so, by `Owners`, not also reserved: the answer is the load's own.
  The data add `ViewInv`, on `AnswersInv`. An access is in one place: in the pipe, the input buffer, an entry that waits, the output buffer or the bus; place and age say which of two is `Ahead`.
  * `ViewOrder`: of two accesses to one word in the buffers one is ahead of the other (`OneAhead`): ages order what waits, and `bus_addr_match_pending` keeps an access back while the bus has another
    in its bus word. For that the output buffer, once the bus has taken one channel of its store, has nothing of its bus word pending (`HalfTaken`), and the halves of a load are two words (`TwinWords`).
  * `Carried`: the data of a store on the bus and in the output buffer are those of its entry. `InStep`: the flags of the stages agree, whatever is flushed or frozen. `Recent`: what the program has
    in memory is of stores older than all in the pipe.
  * `DataView`: the stores to one byte, from memory to the youngest, have rising numbers (`MemoryBehind`, `WritersSorted`), and the youngest is the byte of the program (`ProgramSeen`). So the bus
    writes them in program order, and with nothing left in the buffers memory is the program's: `MemoryFollowsProgram`. The bytes a load expects are those of the last store ahead of it (`LoadsSee`).
  * `ReadGood`, `DoneGood`, `ForwardedRight`: with nothing ahead of it on its word a load that reads the bus reads what it expects; what is forwarded is from the youngest writer (`YoungestWriter`) of dc4,
    dc5, the input buffer and the entries: `LoadsSeeProgramOrder`. Neither property is inductive: both speak of the end of an access, and nothing in them says which store is next.
* `DmaCtrlProofs`: `DmaInv`. For some n and m the requests are in the n slots from RspPtr on, the first m of them have had their turn, WrPtr and RdPtr are n and m further, and the bus is told
  of a full queue in time (`QueueOf`). That an answer never overtakes its access rests on what an entry holds (`EntryOK`), on a read in the memories having a slot of its own that still waits for it
  (`Reading`: the delayed pointers of two reads under way differ), and on the debug module having one access in the queue (`DebugAlone`), since only for its writes the answer may come in the clock of
  the turn. `NewIdIsFree` is the pigeonhole principle: one number more than slots. The mapping is proved once for any ring (`QueuedItems`); `RingStep` and `ItemStep` say what a clock does to the lengths and the
  items, `QueueMoves` what that makes of the sequence, and `QueueStep` concludes that every clock, whatever is taken, has its turn and is answered in it, is one step of `DmaQueue` or a stutter.
* `FrontendProofs`: `FrontIInv == FrontTypeOK /\ FetchesAgree /\ Account`. Fetch control and the cache's control each keep a bit for the fetch in f2 and clear
  them at different times; a hit of a fetch that only the latter has would fill a buffer nobody counted. `LeftOver` says such a fetch has missed and waits, in states in which nothing hits
  and no critical word is ready. That rests on `OnlyTheWord` (while a critical word is waited for, only its own fetch is sent, and never behind one in f2), which rests on
  `WaitsForWord` (fetch control is in WFM all that time) and this on `NothingWhenIdle`, as a halted core ignores a miss. `NoLateFlush` makes the second guard of `mem_f2_raw` idle.
  `Account` has the number of buffers taken, the first ones (`AlignerCounts`: what shifts and what is fetched leaves no gap), and the one or two bits that may stand for it
  (`WriteLogic`: each case of right, right2, right3 and left).
  The refinement adds `StreamInv`, in two halves. `FetchInv` is what happens to a fetch until it is answered:
  * `FetchRight`: the fetch in f2 is at `next`, the one in f1 at the group behind it, and with none in f2 `miss_addr` is `next` (`InPlace`, `StartsAgain`): a miss, a stall or a branch that
    takes the fetch in f1 away leaves the address to start again at. `WordIsFetched`: the fetch of a critical word is alone, and the word stays ready until it is fetched.
  * `MissRight`: while a miss is under way its address is `next` and the halves kept aside are those of its group, so a bypassed word is that of the fetch (`OwnGroup`).
  * `BusRight`: beats that were asked for are owed, at the bus port, or counted, each in one place (`Counted`), so the last beat ends the line when nothing is owed any more, no beat of a line
    is left for the next miss, and the critical word is completed once (`CompletesOnce`): a second time would leave it ready with nobody to fetch it.

  The rest is what is made of the answer. `RingRight`: the buffers in use are `rdptr` and those behind it in the ring, and each holds parcels of the group stored at its place, from the offset kept there
  (`ShiftTakes`: what the shift leaves, in one or two buffers, is what is behind the instructions taken). `IbOK`: the first places of the instruction buffer are taken, by instructions of their own length.
  `NothingAfterFlush`: the clock after a flush finds the buffers empty, when the instruction buffer is still to be. `HeldStep` then says that a clock takes the parcels of d instructions
  off the front of what is held (`IbFollows`) and puts those that are delivered behind it (`BuffersFollow`), and `StreamStep` that this is `Advance`, or `Redirect` with a flush.

### What is only model-checked

Liveness (`ProgramCompletes`, `VectorEnds`, `EverythingDrains`, `EveryRequestAnswered`, `FetchGoesOn`, the refusal of `MemoryOperationEnds`): out of the prover's reach. Every other property of a passing run is
stated by a theorem.

## 5. Plan

Done: the bridge with harness and VPU, the bridge in the core, store buffer, bus buffer, non-blocking loads in decode, DMA controller, front end from fetch control to the instruction buffer.

What is left, in the order of what it would add:

1. `TluHalt`, `Dbg`: the halt, resume and command machines, with each other; the debug instructions of `dec_ib_ctl` belong to them.
2. The error machines of `ifu_mem_ctl` (parity, ECC, `fence.i`) and the DMA accesses to the ICCM, with `DmaCtrl`.
3. `AxiToAhb` and `AhbToAxi`: refine an abstract memory port with one outstanding response per access.
4. `ExuDiv` (against `\div` and `%`), `Pic` (priority tree against the maximum).
5. `SwervOvi` with the registers of `NbLoadCam`: the destination that a petition's load seems to have (`dec_decode_ctl.sv:803`), and the write-back pulse that clears e4
   (`dec_decode_ctl.sv:2242`). Both are listed as hazards; the product of the two modules is too large for a run as they stand.

## 6. Disagreements met

* `ovi_fullchunk` - `AllElementsAnnounced`: a vector that fills its last chunk has it announced with zero elements
  (`ovi.sv:230`), where the comment at `:226` says the last chunk's data are sent.
* `ovi_bytes` - `PetitionsContiguous`: the petition address advances by the size of an element while each petition moves
  32 bits (`ovi.sv:215`; the comment at `:126` says the petitions are 32-bit).
* `ovi_subpacket` - `MemoryOperationEnds`: a vector of less than 32 bits has no packets, so the bridge stays in its memory state for ever
  (`ovi.sv:170`; the comment at `:231` says the last packet ends it).
* `vector_scalar` - `AnswersAreVectorData`: `load_valid` of the bridge is the data valid of any non-blocking load
  (`swerv.sv:1067`, whose comment says "Only if its vec...."): a scalar load that is still open when a vector load is decoded is counted as a packet of the vector.

`ovi_widths` avoids the first three (vectors that end inside a chunk, of at least one packet), `vector_core` the fourth.

Hazards met that no property states, because the repository says nothing they could be held against or because they need a larger composition:
the destination of a petition's load is read from an e3 without an instruction of it (`dec_decode_ctl.sv:803`); the completion of the VPU clears
e4 (`:2242`); `vl` and `sew` change while a vsetvli merely stands in decode (`swerv.sv:1021`); no instruction sent to the VPU is ever killed (`ovi.sv:91`); `mem_ready` tells of the store
buffer and not of the bus buffer (`swerv.sv:1066`); loads can starve the drain (`lsu_dccm_ctl.sv:146`).

Met in the front end, and allowed by its properties: a miss in the clock in which the aligner empties two buffers sets both
`fb_right2` and `fb_right3` (`ifu_ifc_ctl.sv:202-205`; `miss_f2` is missing in the second term of `fb_right2`), so `fb_write_f1` has two bits set. The higher one makes fetch control
believe in a buffer more than there is taken until the next flush, against "mass balance the fetch buffers" (`:196`); `BuffersCounted` says that it is never worse than that one, and
`FetchGoesOn` that it stops nothing.

## 7. Not modelled, and why

Combinational or data-only parts (address check, triggers, decoder tables, ALU, multiplier, ECC codes, compressed-instruction
expansion), clock gating and library cells (their effect is that a register keeps its value), performance counters, the branch
predictor (a wrong prediction is repaired by a flush), configuration scripts, the unfinished `ovi/fake-vpu`, and the
VPU itself (empty submodule). What is left of the rest is in the plan.

Most of the repository's lines in C are `tools/sis`, a vendored logic-synthesis program, and benchmark programs under `testbench/`: they are
tools and inputs, not part of the core. The lines that `PROJECT.json` maps are those of the SystemVerilog sources in `design/` and `ovi/src/`, which are the system.
