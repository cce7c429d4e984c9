-------------------------- MODULE NbLoadCamProofs --------------------------
(***************************************************************************)
(* Theorems about the non-blocking loads of decode, for every number of     *)
(* tags, registers and instructions in flight.                              *)
(***************************************************************************)
EXTENDS NbLoadCam, FiniteSetTheorems, WellFoundedInduction, TLAPS

-----------------------------------------------------------------------------
(* The inductive invariant.                                                  *)

Pipe == {pe1, pe2, pe3, pe4, pwb}

(* A tag that an entry waits for belongs to a load of the bus buffer. *)
Held == \A i \in Tags : cam[i].valid => bus_loads[cam[i].tag].st # "free"

(* There is one load/store pipe. *)
OneLoad == \A p \in Pipe : ~(p[0].op = "load" /\ p[1].op = "load")

FrozenBlocks == frozen => ext_dc3 = "block"

(* The entry of a load that is still on its way to write-back. *)
Waits(t, p) ==
  /\ bus_loads[t].st = "pipe"
  /\ \E i \in Tags : /\ cam[i].valid /\ cam[i].tag = t /\ ~cam[i].wb
                     /\ \A l \in Lane : p[l].op = "load" => p[l].rd = cam[i].rd

PipeWaits ==
  /\ nb_dc4 # NoTag => Waits(nb_dc4, pe4) /\ nb_dc4 # nb_dc5
  /\ nb_dc5 # NoTag => Waits(nb_dc5, pwb)

(* The entry of a load that has committed waits for the last writer of its register. *)
Answered ==
  \A i \in Tags :
    cam[i].valid /\ bus_loads[cam[i].tag].st = "out" =>
      /\ cam[i].wb /\ bus_loads[cam[i].tag].rd = cam[i].rd
      /\ cam[i].rd # 0 => bus_loads[cam[i].tag].live

CamIInv ==
  /\ CamTypeOK /\ Held /\ OneEntryPerTag
  /\ OneLoad /\ FrozenBlocks /\ PipeWaits /\ Answered
  /\ RegistersSettle /\ ReadersSeeProgramOrder

(* A clock edge, with the inputs CamNext gives it. *)
Edge(dec, lower, upper, ext, tag, ans, thaw) ==
  /\ upper \subseteq Lane /\ ans \in {NoTag} \cup answerable /\ thaw \in BOOLEAN
  /\ dec \in Decodes /\ CanDecode(dec, lower)
  /\ ext \in Ext(dec, lower)
  /\ IF nonblock_load_valid_dc3(lower) THEN tag \in free_tags ELSE tag = NoTag
  /\ CamEdges(dec, lower, upper, ext, tag, ans, thaw)

LEMMA NextIsEdge ==
  ASSUME CamNext
  PROVE  \E dec, lower, upper, ext, tag, ans, thaw :
           Edge(dec, lower, upper, ext, tag, ans, thaw)
<1>1. PICK lower \in {"none", "keep", "i1", "both"}, upper \in {{}} \cup {{l} : l \in Lane},
           ans \in {NoTag} \cup answerable, thaw \in BOOLEAN :
        \E dec \in Decodes :
          /\ CanDecode(dec, lower)
          /\ \E ext \in Ext(dec, lower) :
               IF nonblock_load_valid_dc3(lower)
               THEN \E tag \in free_tags : CamEdges(dec, lower, upper, ext, tag, ans, thaw)
               ELSE CamEdges(dec, lower, upper, ext, NoTag, ans, thaw)
  BY DEF CamNext
<1>2. PICK dec \in Decodes :
        /\ CanDecode(dec, lower)
        /\ \E ext \in Ext(dec, lower) :
             IF nonblock_load_valid_dc3(lower)
             THEN \E tag \in free_tags : CamEdges(dec, lower, upper, ext, tag, ans, thaw)
             ELSE CamEdges(dec, lower, upper, ext, NoTag, ans, thaw)
  BY <1>1
<1>3. PICK ext \in Ext(dec, lower) :
        IF nonblock_load_valid_dc3(lower)
        THEN \E tag \in free_tags : CamEdges(dec, lower, upper, ext, tag, ans, thaw)
        ELSE CamEdges(dec, lower, upper, ext, NoTag, ans, thaw)
  BY <1>2
<1>4. upper \subseteq Lane
  OBVIOUS
<1>5. CASE nonblock_load_valid_dc3(lower)
  <2>1. PICK tag \in free_tags : CamEdges(dec, lower, upper, ext, tag, ans, thaw)
    BY <1>3, <1>5
  <2> QED
    BY <1>1, <1>2, <1>3, <1>4, <1>5, <2>1 DEF Edge
<1>6. CASE ~nonblock_load_valid_dc3(lower)
  BY <1>1, <1>2, <1>3, <1>4, <1>6 DEF Edge
<1> QED
  BY <1>5, <1>6

-----------------------------------------------------------------------------
(* One entry of the CAM and one tag of the bus buffer over a clock edge.       *)

LEMMA TagsAreInts == Tags \subseteq Int /\ NoTag \notin Tags
  BY NbLoadAssumption DEF Tags, NoTag

(* The register of the load in dc3. *)
LEMMA LoadRegister ==
  ASSUME CamTypeOK PROVE nonblock_load_rd \in CamRegs \cup {0}
BY DEF CamTypeOK, nonblock_load_rd, CamPacket, Lane

(* An entry that is valid after an edge was written in it, or kept: then nothing
   that clears it has happened. *)
LEMMA EntryCases ==
  ASSUME CamTypeOK, NEW lower, NEW tag, NEW ans, CamEdge(lower, tag, ans),
         NEW i \in Tags, cam'[i].valid
  PROVE  \/ /\ i \in cam_wen(lower) /\ ~cam[i].valid
            /\ cam'[i].tag = tag /\ cam'[i].rd = nonblock_load_rd /\ ~cam'[i].wb
         \/ /\ i \notin cam_wen(lower) /\ cam[i].valid
            /\ cam[i].tag # ans /\ ~overwritten(i, lower)
            /\ cam[i].tag = nb_dc5 => ~cam_inv_reset(lower)
            /\ cam'[i].tag = cam[i].tag /\ cam'[i].rd = cam[i].rd
            /\ cam'[i].wb <=> cam[i].wb \/ (nonblock_load_valid_wb /\ cam[i].tag = nb_dc5)
<1>1. cam'[i] = CamEntry(i, lower, tag, ans)
  BY DEF CamEdge
<1>2. cam[i] \in [valid : BOOLEAN, wb : BOOLEAN, tag : Tags, rd : CamRegs \cup {0}]
  BY DEF CamTypeOK
<1>3. i \in cam_wen(lower) => ~cam[i].valid
  BY DEF cam_wen, cam_free
<1>4. CASE i \in cam_wen(lower)
  <2> DEFINE e == [valid |-> TRUE, wb |-> FALSE, tag |-> tag, rd |-> nonblock_load_rd]
  <2>1. ~cam[i].valid
    BY <1>3, <1>4
  <2>2. cam'[i] = e
    BY <1>1, <1>4, <2>1 DEF CamEntry
  <2> QED
    BY <1>4, <2>1, <2>2
<1>5. CASE i \notin cam_wen(lower)
  <2>1. CASE \/ cam_inv_reset(lower) /\ cam[i].valid /\ cam[i].tag = nb_dc5
             \/ cam[i].valid /\ cam[i].tag = ans
             \/ overwritten(i, lower)
    <3>1. cam'[i] = NoCam
      BY <1>1, <1>5, <2>1 DEF CamEntry, NoCam
    <3> QED
      BY <3>1 DEF NoCam
  <2>2. CASE ~(\/ cam_inv_reset(lower) /\ cam[i].valid /\ cam[i].tag = nb_dc5
               \/ cam[i].valid /\ cam[i].tag = ans
               \/ overwritten(i, lower))
    <3>1. cam'[i] = IF nonblock_load_valid_wb /\ cam[i].valid /\ cam[i].tag = nb_dc5
                    THEN [cam[i] EXCEPT !.wb = TRUE] ELSE cam[i]
      BY <1>1, <1>5, <2>2 DEF CamEntry
    <3>2. cam[i].valid
      BY <1>2, <3>1
    <3> QED
      BY <1>2, <1>5, <2>2, <3>1, <3>2
  <2> QED
    BY <2>1, <2>2
<1> QED
  BY <1>4, <1>5

(* The load of a tag after an edge. *)
LEMMA TagCases ==
  ASSUME NEW lower, NEW tag, NEW ans, TagEdge(lower, tag, ans), NEW t \in Tags
  PROVE  /\ nonblock_load_valid_dc3(lower) /\ t = tag => bus_loads'[t].st = "pipe"
         /\ bus_loads'[t].st = "free" =>
              \/ t = ans
              \/ t = nb_dc5 /\ ~load_commits_dc5(lower)
              \/ bus_loads[t].st = "free"
BY DEF TagEdge, NoLoad

-----------------------------------------------------------------------------
(* Type correctness.                                                         *)

(* An entry that is free after an edge has the type of one. *)
LEMMA EntryType ==
  ASSUME CamTypeOK, NEW lower, NEW ans, NEW tag, NEW i \in Tags,
         nonblock_load_valid_dc3(lower) => tag \in Tags
  PROVE  CamEntry(i, lower, tag, ans)
           \in [valid : BOOLEAN, wb : BOOLEAN, tag : Tags, rd : CamRegs \cup {0}]
<1> DEFINE T == [valid : BOOLEAN, wb : BOOLEAN, tag : Tags, rd : CamRegs \cup {0}]
<1>1. cam[i] \in T
  BY DEF CamTypeOK
<1>2. NoCam \in T
  BY NbLoadAssumption DEF NoCam, Tags
<1>3. i \in cam_wen(lower) => tag \in Tags
  BY DEF cam_wen
<1>4. i \in cam_wen(lower) =>
        [valid |-> TRUE, wb |-> FALSE, tag |-> tag, rd |-> nonblock_load_rd] \in T
  BY <1>3, LoadRegister
<1>5. \A e \in T : [e EXCEPT !.wb = TRUE] \in T
  OBVIOUS
<1> HIDE DEF T
<1>6. (IF i \in cam_wen(lower)
       THEN [valid |-> TRUE, wb |-> FALSE, tag |-> tag, rd |-> nonblock_load_rd]
       ELSE IF \/ cam_inv_reset(lower) /\ cam[i].valid /\ cam[i].tag = nb_dc5
               \/ cam[i].valid /\ cam[i].tag = ans
               \/ overwritten(i, lower)
            THEN NoCam ELSE cam[i]) \in T
  BY <1>1, <1>2, <1>4
<1>7. CamEntry(i, lower, tag, ans) \in T
  BY <1>5, <1>6 DEF CamEntry
<1> QED
  BY <1>7 DEF T

LEMMA StagesType ==
  ASSUME CamTypeOK, NEW dec \in Decodes, NEW lower, NEW upper \in SUBSET Lane,
         StagesEdge(dec, lower, upper)
  PROVE  /\ {pe1', pe2', pe3', pe4', pwb'} \subseteq [Lane -> CamPacket]
         /\ flush_final' \subseteq Lane
         /\ {depend_load_e2_e1', same_cycle_e1', same_cycle_e2'} \subseteq BOOLEAN
<1>1. None \in CamPacket
  BY DEF None, CamPacket
<1>2. \A p \in [Lane -> CamPacket] : \A lanes : Kept(p, lanes) \in [Lane -> CamPacket]
  BY <1>1 DEF Kept
<1>3. Bubble \in [Lane -> CamPacket]
  BY <1>1 DEF Bubble
<1>4. \A l \in DOMAIN dec : dec[l] \in Decodable
  BY DEF Decodes
<1>5. \A l \in Lane : l \in DOMAIN dec => [op |-> dec[l].op, rd |-> dec[l].rd] \in CamPacket
  BY <1>4 DEF Decodable, CamPacket
<1>6. [l \in Lane |-> IF l \in DOMAIN dec THEN [op |-> dec[l].op, rd |-> dec[l].rd] ELSE None]
        \in [Lane -> CamPacket]
  BY <1>1, <1>5
<1>7. {pe1, pe2, pe3, pe4} \subseteq [Lane -> CamPacket]
  BY DEF CamTypeOK
<1>8. pe1' \in [Lane -> CamPacket]
  BY <1>6, <1>7 DEF StagesEdge
<1>9. {pe2', pe3', pe4', pwb'} \subseteq [Lane -> CamPacket]
  BY <1>2, <1>3, <1>7 DEF StagesEdge
<1>10. flush_final' \subseteq Lane
  BY DEF StagesEdge, CamTypeOK
<1>11. {depend_load_e2_e1', same_cycle_e1', same_cycle_e2'} \subseteq BOOLEAN
  BY DEF StagesEdge, CamTypeOK, depend_load_e1_d, depend_load, depend_load_same_cycle_d
<1> QED
  BY <1>8, <1>9, <1>10, <1>11

LEMMA TagType ==
  ASSUME CamTypeOK, NEW lower, NEW tag, NEW ans, TagEdge(lower, tag, ans)
  PROVE  bus_loads'
           \in [Tags -> [st : {"free", "pipe", "out"}, rd : CamRegs \cup {0}, live : BOOLEAN]]
<1> DEFINE L == [st : {"free", "pipe", "out"}, rd : CamRegs \cup {0}, live : BOOLEAN]
<1>1. NoLoad \in L /\ [NoLoad EXCEPT !.st = "pipe"] \in L
  BY DEF NoLoad
<1>2. \A b \in L : [b EXCEPT !.live = FALSE] \in L
  OBVIOUS
<1>3. load_commits_dc5(lower) => (CHOOSE k \in load_lane(pwb) : TRUE) \in Lane
  BY DEF load_commits_dc5, load_lane
<1>4. ASSUME NEW l \in Lane
      PROVE  [st |-> "out", rd |-> pwb[l].rd,
              live |-> pwb[l].rd # 0 /\ ~(l = 0 /\ same_dest_wb /\ ~i1_kill(lower))] \in L
  <2>1. pwb[l].rd \in CamRegs \cup {0}
    BY DEF CamTypeOK, CamPacket
  <2> QED
    BY <2>1
<1>5. bus_loads \in [Tags -> L]
  BY DEF CamTypeOK
<1> HIDE DEF L
<1>6. ASSUME NEW t \in Tags PROVE bus_loads'[t] \in L
  BY <1>1, <1>2, <1>3, <1>4, <1>5 DEF TagEdge
<1>7. bus_loads' \in [Tags -> L]
  BY <1>6 DEF TagEdge
<1> QED
  BY <1>7 DEF L

(* What becomes of fresh[r], by the ports that write r. *)
LEMMA FreshCases ==
  ASSUME NEW dec, NEW lower, NEW ext, NEW ans, GprEdge(dec, lower, ext, ans), NEW r \in CamRegs
  PROVE  /\ fresh'[r] \in BOOLEAN
         /\ ports(r, lower, ans) = {} =>
              fresh'[r] = (committed(r, lower) = {} /\ fresh[r])
         /\ ports(r, lower, ans) = {2} =>
              fresh'[r] = (committed(r, lower) = {} /\ bus_loads[ans].rd = r /\ bus_loads[ans].live)
         /\ ports(r, lower, ans) = {0} => fresh'[r] = (committed(r, lower) = {0})
         /\ ports(r, lower, ans) = {1} => fresh'[r] = (1 \in committed(r, lower))
<1> DEFINE c == committed(r, lower)
           p == ports(r, lower, ans)
<1>1. fresh'[r] =
        CASE p = {} -> c = {} /\ fresh[r]
          [] p = {2} -> c = {} /\ bus_loads[ans].rd = r /\ bus_loads[ans].live
          [] p = {0} -> c = {0}
          [] p = {1} -> 1 \in c
          [] OTHER -> FALSE
  BY DEF GprEdge
<1> HIDE DEF c, p
<1>2. {0} # {} /\ {1} # {} /\ {2} # {} /\ {0} # {1} /\ {0} # {2} /\ {1} # {2}
  OBVIOUS
<1>3. p = {} => fresh'[r] = (c = {} /\ fresh[r])
  BY <1>1, <1>2
<1>4. p = {2} => fresh'[r] = (c = {} /\ bus_loads[ans].rd = r /\ bus_loads[ans].live)
  BY <1>1, <1>2
<1>5. p = {0} => fresh'[r] = (c = {0})
  BY <1>1, <1>2
<1>6. p = {1} => fresh'[r] = (1 \in c)
  BY <1>1, <1>2
<1>7. p \notin {{}, {0}, {1}, {2}} => fresh'[r] = FALSE
  BY <1>1
<1>8. fresh'[r] \in BOOLEAN
  <2>1. \/ p = {} \/ p = {2} \/ p = {0} \/ p = {1}
        \/ p \notin {{}, {0}, {1}, {2}}
    OBVIOUS
  <2>2. CASE p = {}
    BY <1>3, <2>2
  <2>3. CASE p = {2}
    BY <1>4, <2>3
  <2>4. CASE p = {0}
    BY <1>5, <2>4
  <2>5. CASE p = {1}
    <3>1. fresh'[r] = (1 \in c)
      BY <1>6, <2>5
    <3> QED
      BY <3>1
  <2> QED
    BY <1>7, <2>1, <2>2, <2>3, <2>4, <2>5
<1> QED
  BY <1>3, <1>4, <1>5, <1>6, <1>8 DEF c, p

LEMMA TypeStep ==
  ASSUME CamTypeOK, NEW dec, NEW lower, NEW upper, NEW ext, NEW tag, NEW ans, NEW thaw,
         Edge(dec, lower, upper, ext, tag, ans, thaw)
  PROVE  CamTypeOK'
<1>1. /\ StagesEdge(dec, lower, upper) /\ LsuEdge(dec, lower, ext, tag, thaw)
      /\ TagEdge(lower, tag, ans) /\ CamEdge(lower, tag, ans) /\ GprEdge(dec, lower, ext, ans)
      /\ dec \in Decodes /\ upper \in SUBSET Lane /\ thaw \in BOOLEAN
  BY DEF Edge, CamEdges
<1>2. ext \in {"no", "nb", "block"}
  BY DEF Edge, Ext
<1>3. nonblock_load_valid_dc3(lower) => tag \in Tags
  BY DEF Edge, free_tags
<1>4. cam' \in [Tags -> [valid : BOOLEAN, wb : BOOLEAN, tag : Tags, rd : CamRegs \cup {0}]]
  BY <1>1, <1>3, EntryType DEF CamEdge
<1>5. /\ {nb_dc4', nb_dc5'} \subseteq Tags \cup {NoTag}
      /\ ext_dc3' \in {"no", "nb", "block"}
      /\ frozen' \in BOOLEAN
  BY <1>1, <1>2, <1>3 DEF LsuEdge, CamTypeOK
<1>6. fresh' \in [CamRegs -> BOOLEAN]
  <2>1. ASSUME NEW r \in CamRegs PROVE fresh'[r] \in BOOLEAN
    BY <1>1, FreshCases
  <2> QED
    BY <1>1, <2>1 DEF GprEdge
<1>7. misread' \in BOOLEAN
  BY <1>1 DEF GprEdge, CamTypeOK
<1> QED
  BY <1>1, <1>4, <1>5, <1>6, <1>7, StagesType, TagType DEF CamTypeOK

-----------------------------------------------------------------------------
(* One entry for a tag.                                                      *)

LEMMA OneEntryStep ==
  ASSUME CamTypeOK, Held, OneEntryPerTag,
         NEW dec, NEW lower, NEW upper, NEW ext, NEW tag, NEW ans, NEW thaw,
         Edge(dec, lower, upper, ext, tag, ans, thaw)
  PROVE  Held' /\ OneEntryPerTag'
<1>1. CamTypeOK' /\ TagEdge(lower, tag, ans) /\ CamEdge(lower, tag, ans)
  BY TypeStep DEF Edge, CamEdges
<1>2. nonblock_load_valid_dc3(lower) => tag \in Tags /\ bus_loads[tag].st = "free"
  BY DEF Edge, free_tags
<1>3. \A i \in Tags : i \in cam_wen(lower) => nonblock_load_valid_dc3(lower)
  BY DEF cam_wen
<1>4. ASSUME NEW i \in Tags, cam'[i].valid
      PROVE  bus_loads'[cam'[i].tag].st # "free"
  <2>1. CASE i \in cam_wen(lower)
    <3>1. cam'[i].tag = tag
      BY <1>1, <1>4, <2>1, EntryCases
    <3> QED
      BY <1>1, <1>2, <1>3, <2>1, <3>1, TagCases
  <2>2. CASE i \notin cam_wen(lower)
    <3>1. /\ cam[i].valid /\ cam[i].tag # ans /\ cam'[i].tag = cam[i].tag
          /\ cam[i].tag = nb_dc5 => ~cam_inv_reset(lower)
          /\ cam[i].tag \in Tags
      BY <1>1, <1>4, <2>2, EntryCases DEF CamTypeOK
    <3>2. cam[i].tag = nb_dc5 => load_commits_dc5(lower)
      BY <3>1, TagsAreInts DEF cam_inv_reset, lsu_nonblock_load_inv_dc5
    <3> QED
      BY <1>1, <3>1, <3>2, TagCases DEF Held
  <2> QED
    BY <2>1, <2>2
<1>5. ASSUME NEW i \in Tags, NEW j \in Tags,
             cam'[i].valid, cam'[j].valid, cam'[i].tag = cam'[j].tag
      PROVE  i = j
  <2>1. \A k \in Tags : cam'[k].valid =>
           \/ k \in cam_wen(lower) /\ cam'[k].tag = tag
           \/ cam[k].valid /\ cam'[k].tag = cam[k].tag
    BY <1>1, EntryCases
  <2>2. i \in cam_wen(lower) /\ j \in cam_wen(lower) => i = j
    BY TagsAreInts DEF cam_wen, cam_free
  <2>3. \A k, m \in Tags : k \in cam_wen(lower) /\ cam[m].valid => cam[m].tag # tag
    BY <1>2, <1>3 DEF Held
  <2> QED
    BY <1>5, <2>1, <2>2, <2>3 DEF OneEntryPerTag
<1> QED
  BY <1>4, <1>5 DEF Held, OneEntryPerTag

-----------------------------------------------------------------------------
(* The stages.                                                               *)

LEMMA StagesStep ==
  ASSUME CamTypeOK, OneLoad, FrozenBlocks,
         NEW dec, NEW lower, NEW upper, NEW ext, NEW tag, NEW ans, NEW thaw,
         Edge(dec, lower, upper, ext, tag, ans, thaw)
  PROVE  OneLoad' /\ FrozenBlocks'
<1>1. /\ StagesEdge(dec, lower, upper) /\ LsuEdge(dec, lower, ext, tag, thaw)
      /\ CanDecode(dec, lower)
  BY DEF Edge, CamEdges
<1> DEFINE One(p) == ~(p[0].op = "load" /\ p[1].op = "load")
<1>2. \A p, lanes : One(p) => One(Kept(p, lanes))
  BY DEF Kept, Lane, None
<1>3. One(Bubble)
  BY DEF Bubble, Lane, None
<1>4. One([l \in Lane |-> IF l \in DOMAIN dec
                          THEN [op |-> dec[l].op, rd |-> dec[l].rd] ELSE None])
  BY <1>1 DEF CanDecode, Lane, None
<1>5. One(pe1) /\ One(pe2) /\ One(pe3) /\ One(pe4)
  BY DEF OneLoad, Pipe
<1> HIDE DEF One
<1>6. One(pe1') /\ One(pe2') /\ One(pe3') /\ One(pe4') /\ One(pwb')
  BY <1>1, <1>2, <1>3, <1>4, <1>5 DEF StagesEdge
<1>7. OneLoad'
  BY <1>6 DEF OneLoad, Pipe, One
<1>8. FrozenBlocks'
  BY <1>1 DEF FrozenBlocks, LsuEdge, freeze
<1> QED
  BY <1>7, <1>8

(* A non-blocking load leaves dc3 with its instruction. *)
LEMMA LoadLeaves ==
  ASSUME FrozenBlocks, NEW dec, NEW lower, NEW upper,
         StagesEdge(dec, lower, upper), nonblock_load_valid_dc3(lower)
  PROVE  \A l \in Lane : pe4'[l] = pe3[l]
BY DEF FrozenBlocks, StagesEdge, nonblock_load_valid_dc3, flush_dc3, freeze, Kept, Lane

-----------------------------------------------------------------------------
(* A load that gets a tag gets an entry.                                     *)

LEMMA LeastTag ==
  ASSUME NEW S, S \subseteq Tags, S # {}
  PROVE  \E i \in S : \A j \in S : i <= j
<1>1. S \subseteq Nat
  BY NbLoadAssumption DEF Tags
<1>2. PICK i \in S : \A j \in S : ~(<<j, i>> \in OpToRel(<, Nat))
  BY <1>1, NatLessThanWellFounded, WFMin
<1>3. \A j \in S : ~(j < i)
  BY <1>1, <1>2 DEF OpToRel
<1> QED
  BY <1>1, <1>3

LEMMA FreeEntry ==
  ASSUME CamTypeOK, Held, OneEntryPerTag, NEW lower, nonblock_load_valid_dc3(lower),
         free_tags # {}
  PROVE  cam_wen(lower) # {}
<1>1. PICK tag \in Tags : bus_loads[tag].st = "free"
  BY DEF free_tags
<1>2. cam_free # {}
  <2>1. SUFFICES ASSUME cam_free = {} PROVE FALSE
    OBVIOUS
  <2> DEFINE Others == Tags \ {tag}
             f == [i \in Tags |-> cam[i].tag]
  <2>2. \A i \in Tags : cam[i].valid /\ cam[i].tag \in Others
    BY <1>1, <2>1 DEF cam_free, Held, CamTypeOK
  <2>3. f \in [Tags -> Others]
    BY <2>2
  <2>4. IsFiniteSet(Tags) /\ Cardinality(Tags) \in Nat
    <3>1. 0 \in Int /\ NBLOAD_SIZE - 1 \in Int
      BY NbLoadAssumption
    <3>2. IsFiniteSet(0..NBLOAD_SIZE - 1)
      BY <3>1, FS_Interval, Zenon
    <3>3. IsFiniteSet(Tags)
      BY <3>2 DEF Tags
    <3> QED
      BY <3>3, FS_CardinalityType
  <2>5. /\ IsFiniteSet(Others)
        /\ Cardinality(Others) = Cardinality(Tags) - 1
    <3>1. /\ IsFiniteSet(Others)
          /\ Cardinality(Others) = IF tag \in Tags THEN Cardinality(Tags) - 1 ELSE Cardinality(Tags)
      BY <2>4, FS_RemoveElement, Zenon
    <3> QED
      BY <3>1
  <2>6. Cardinality(Others) < Cardinality(Tags)
    BY <2>4, <2>5
  <2> HIDE DEF Others, f
  <2>7. \E i, j \in Tags : i # j /\ f[i] = f[j]
    BY <2>3, <2>4, <2>5, <2>6, FS_PigeonHole, Zenon
  <2> QED
    BY <2>2, <2>7 DEF OneEntryPerTag, f
<1>3. \E i \in cam_free : \A j \in cam_free : i <= j
  BY <1>2, LeastTag DEF cam_free
<1> QED
  BY <1>3 DEF cam_wen

(* An entry is written as the load in dc3 says. *)
LEMMA WrittenEntry ==
  ASSUME CamTypeOK, NEW lower, NEW tag, NEW ans, CamEdge(lower, tag, ans),
         NEW i \in cam_wen(lower)
  PROVE  /\ i \in Tags /\ ~cam[i].valid
         /\ cam'[i].valid /\ cam'[i].tag = tag /\ cam'[i].rd = nonblock_load_rd /\ ~cam'[i].wb
<1> DEFINE e == [valid |-> TRUE, wb |-> FALSE, tag |-> tag, rd |-> nonblock_load_rd]
<1>1. i \in Tags /\ ~cam[i].valid
  BY DEF cam_wen, cam_free
<1>2. cam'[i] = e
  BY <1>1 DEF CamEdge, CamEntry
<1> QED
  BY <1>1, <1>2

(* An entry that nothing clears is kept. *)
LEMMA KeptEntry ==
  ASSUME CamTypeOK, NEW lower, NEW tag, NEW ans, CamEdge(lower, tag, ans),
         NEW i \in Tags, cam[i].valid, cam[i].tag # ans, ~overwritten(i, lower),
         cam[i].tag = nb_dc5 => ~cam_inv_reset(lower)
  PROVE  /\ cam'[i].valid /\ cam'[i].tag = cam[i].tag /\ cam'[i].rd = cam[i].rd
         /\ cam'[i].wb <=> cam[i].wb \/ (nonblock_load_valid_wb /\ cam[i].tag = nb_dc5)
<1>1. cam[i] \in [valid : BOOLEAN, wb : BOOLEAN, tag : Tags, rd : CamRegs \cup {0}]
  BY DEF CamTypeOK
<1>2. i \notin cam_wen(lower)
  BY DEF cam_wen, cam_free
<1>3. cam'[i] = IF nonblock_load_valid_wb /\ cam[i].valid /\ cam[i].tag = nb_dc5
                THEN [cam[i] EXCEPT !.wb = TRUE] ELSE cam[i]
  BY <1>2 DEF CamEdge, CamEntry
<1> QED
  BY <1>1, <1>3

(* A load that neither leaves nor commits stays; it is dead once a lane has
   committed a result of its register. *)
LEMMA KeptLoad ==
  ASSUME CamTypeOK, NEW lower, NEW tag, NEW ans, TagEdge(lower, tag, ans), NEW t \in Tags,
         ~(nonblock_load_valid_dc3(lower) /\ t = tag), t # ans, t # nb_dc5
  PROVE  /\ bus_loads'[t].st = bus_loads[t].st /\ bus_loads'[t].rd = bus_loads[t].rd
         /\ \/ bus_loads'[t] = bus_loads[t]
            \/ bus_loads[t].st = "out" /\ committed(bus_loads[t].rd, lower) # {}
<1>1. bus_loads[t] \in [st : {"free", "pipe", "out"}, rd : CamRegs \cup {0}, live : BOOLEAN]
  BY DEF CamTypeOK
<1>2. CASE bus_loads[t].st = "out"
           /\ \E l \in Lane : pwb[l].rd = bus_loads[t].rd /\ v(pwb, l)
                               /\ ~(IF l = 0 THEN i0_kill(lower) ELSE i1_kill(lower))
  <2>1. bus_loads'[t] = [bus_loads[t] EXCEPT !.live = FALSE]
    BY <1>2 DEF TagEdge
  <2>2. committed(bus_loads[t].rd, lower) # {}
    BY <1>2 DEF committed
  <2> QED
    BY <1>1, <1>2, <2>1, <2>2
<1>3. CASE ~(bus_loads[t].st = "out"
             /\ \E l \in Lane : pwb[l].rd = bus_loads[t].rd /\ v(pwb, l)
                                 /\ ~(IF l = 0 THEN i0_kill(lower) ELSE i1_kill(lower)))
  <2>1. bus_loads'[t] = bus_loads[t]
    BY <1>3 DEF TagEdge
  <2> QED
    BY <2>1
<1> QED
  BY <1>2, <1>3

(* A load that commits is out on the bus, as one of the loads of write-back; it is
   live if no younger lane commits a result of its register with it. *)
LEMMA CommittedLoad ==
  ASSUME NEW lower, NEW tag, NEW ans, TagEdge(lower, tag, ans), nb_dc5 \in Tags,
         ~(nonblock_load_valid_dc3(lower) /\ nb_dc5 = tag), nb_dc5 # ans,
         load_commits_dc5(lower)
  PROVE  \E l \in load_lane(pwb) :
           /\ bus_loads'[nb_dc5].st = "out" /\ bus_loads'[nb_dc5].rd = pwb[l].rd
           /\ pwb[l].rd # 0 /\ ~(l = 0 /\ same_dest_wb /\ ~i1_kill(lower)) =>
                bus_loads'[nb_dc5] = [st |-> "out", rd |-> pwb[l].rd, live |-> TRUE]
<1>1. PICK l \in load_lane(pwb) :
        bus_loads'[nb_dc5] =
          [st |-> "out", rd |-> pwb[l].rd,
           live |-> (pwb[l].rd # 0 /\ ~(l = 0 /\ same_dest_wb /\ ~i1_kill(lower)))]
  <2>1. (CHOOSE k \in load_lane(pwb) : TRUE) \in load_lane(pwb)
    BY DEF load_commits_dc5
  <2> QED
    BY <2>1 DEF TagEdge
<1> DEFINE b == pwb[l].rd # 0 /\ ~(l = 0 /\ same_dest_wb /\ ~i1_kill(lower))
<1>2. b \in BOOLEAN /\ bus_loads'[nb_dc5] = [st |-> "out", rd |-> pwb[l].rd, live |-> b]
  BY <1>1
<1> HIDE DEF b
<1>3. bus_loads'[nb_dc5].st = "out" /\ bus_loads'[nb_dc5].rd = pwb[l].rd
  BY <1>2
<1>4. ASSUME b PROVE bus_loads'[nb_dc5] = [st |-> "out", rd |-> pwb[l].rd, live |-> TRUE]
  <2>1. b = TRUE
    BY <1>2, <1>4
  <2> QED
    BY <1>2, <2>1, Zenon
<1> QED
  BY <1>3, <1>4 DEF b

-----------------------------------------------------------------------------
(* From dc3 to write-back the entry of a load is there and unmarked.          *)

LEMMA PipeStep ==
  ASSUME CamIInv, NEW dec, NEW lower, NEW upper, NEW ext, NEW tag, NEW ans, NEW thaw,
         Edge(dec, lower, upper, ext, tag, ans, thaw)
  PROVE  PipeWaits'
<1>1. /\ StagesEdge(dec, lower, upper) /\ LsuEdge(dec, lower, ext, tag, thaw)
      /\ TagEdge(lower, tag, ans) /\ CamEdge(lower, tag, ans)
      /\ CamTypeOK /\ Held /\ OneEntryPerTag /\ OneLoad /\ FrozenBlocks /\ PipeWaits
  BY DEF Edge, CamEdges, CamIInv
<1>2. /\ nb_dc4' = IF nonblock_load_valid_dc3(lower) THEN tag ELSE NoTag
      /\ nb_dc5' = nb_dc4
  BY <1>1 DEF LsuEdge
<1>3. ASSUME nb_dc4' # NoTag PROVE Waits(nb_dc4, pe4)'
  <2>1. nonblock_load_valid_dc3(lower) /\ nb_dc4' = tag /\ tag \in free_tags /\ tag \in Tags
    BY <1>2, <1>3 DEF Edge, free_tags
  <2>2. bus_loads'[tag].st = "pipe"
    BY <1>1, <2>1, TagCases
  <2>3. PICK i \in cam_wen(lower) : TRUE
    BY <1>1, <2>1, FreeEntry
  <2>4. /\ i \in Tags /\ cam'[i].valid /\ cam'[i].tag = tag /\ ~cam'[i].wb
        /\ cam'[i].rd = nonblock_load_rd
    BY <1>1, WrittenEntry
  <2>5. \A l \in Lane : pe4'[l].op = "load" => pe4'[l].rd = nonblock_load_rd
    <3>1. \A l \in Lane : pe4'[l] = pe3[l]
      BY <1>1, <2>1, LoadLeaves
    <3>2. ~(pe3[0].op = "load" /\ pe3[1].op = "load")
      BY <1>1 DEF OneLoad, Pipe
    <3> QED
      BY <3>1, <3>2 DEF nonblock_load_rd, Lane
  <2> QED
    BY <2>1, <2>2, <2>4, <2>5 DEF Waits
<1>4. ASSUME nb_dc5' # NoTag PROVE Waits(nb_dc5, pwb)'
  <2>1. nb_dc5' = nb_dc4 /\ nb_dc4 \in Tags /\ nb_dc4 # nb_dc5
    BY <1>1, <1>2, <1>4 DEF CamTypeOK, PipeWaits
  <2>2. PICK i \in Tags : /\ bus_loads[nb_dc4].st = "pipe"
                          /\ cam[i].valid /\ cam[i].tag = nb_dc4 /\ ~cam[i].wb
                          /\ \A l \in Lane : pe4[l].op = "load" => pe4[l].rd = cam[i].rd
    BY <1>1, <1>2, <1>4 DEF PipeWaits, Waits
  <2>3. nb_dc4 # ans
    BY <2>1, <2>2, TagsAreInts DEF Edge, answerable
  <2>4. ~(nonblock_load_valid_dc3(lower) /\ nb_dc4 = tag)
    BY <2>2 DEF Edge, free_tags
  <2>5. bus_loads'[nb_dc4].st = "pipe"
    BY <1>1, <2>1, <2>2, <2>3, <2>4, KeptLoad
  <2>6. /\ cam'[i].valid /\ cam'[i].tag = nb_dc4 /\ cam'[i].rd = cam[i].rd /\ ~cam'[i].wb
    <3>1. ~overwritten(i, lower)
      BY <2>2 DEF overwritten
    <3> QED
      BY <1>1, <2>1, <2>2, <2>3, <3>1, KeptEntry
  <2>7. \A l \in Lane : pwb'[l].op = "load" => pwb'[l] = pe4[l]
    BY <1>1 DEF StagesEdge, Kept, None
  <2> QED
    BY <2>1, <2>2, <2>5, <2>6, <2>7 DEF Waits
<1>5. nb_dc4' # NoTag => nb_dc4' # nb_dc5'
  <2>1. nb_dc4' # NoTag => bus_loads[nb_dc4'].st = "free"
    BY <1>2 DEF Edge, free_tags
  <2>2. nb_dc4 # NoTag => bus_loads[nb_dc4].st = "pipe"
    BY <1>1 DEF PipeWaits, Waits
  <2> QED
    BY <1>2, <2>1, <2>2
<1> QED
  BY <1>3, <1>4, <1>5 DEF PipeWaits

-----------------------------------------------------------------------------
(* What commits and what writes.                                             *)

(* A lane that writes a register commits a result of it; of the lanes that commit
   one, a lane writes. *)
LEMMA WritersCommit ==
  ASSUME NEW lower, NEW r \in CamRegs
  PROVE  /\ \A l \in Lane : wen_wb(l, lower) /\ pwb[l].rd = r => l \in committed(r, lower)
         /\ committed(r, lower) # {} => \E l \in Lane : wen_wb(l, lower) /\ pwb[l].rd = r
BY DEF committed, wen_wb, i0_wen_wb, i1_wen_wb, same_dest_wb, Lane

(* An entry whose load is out waits for the last writer of its register. *)
LEMMA AnsweredStep ==
  ASSUME CamIInv, NEW dec, NEW lower, NEW upper, NEW ext, NEW tag, NEW ans, NEW thaw,
         Edge(dec, lower, upper, ext, tag, ans, thaw)
  PROVE  Answered'
<1>1. /\ TagEdge(lower, tag, ans) /\ CamEdge(lower, tag, ans)
      /\ CamTypeOK /\ Held /\ OneEntryPerTag /\ OneLoad /\ PipeWaits /\ Answered
  BY DEF Edge, CamEdges, CamIInv
<1>2. nonblock_load_valid_dc3(lower) => tag \in Tags /\ bus_loads[tag].st = "free"
  BY DEF Edge, free_tags
<1>3. SUFFICES ASSUME NEW i \in Tags, cam'[i].valid, bus_loads'[cam'[i].tag].st = "out"
               PROVE  /\ cam'[i].wb /\ bus_loads'[cam'[i].tag].rd = cam'[i].rd
                      /\ cam'[i].rd # 0 => bus_loads'[cam'[i].tag].live
  BY DEF Answered
<1>4. i \notin cam_wen(lower)
  <2>1. SUFFICES ASSUME i \in cam_wen(lower) PROVE FALSE
    OBVIOUS
  <2>2. nonblock_load_valid_dc3(lower) /\ cam'[i].tag = tag
    BY <1>1, <2>1, WrittenEntry DEF cam_wen
  <2> QED
    BY <1>1, <1>2, <1>3, <2>2, TagCases
<1> DEFINE t == cam[i].tag
<1>5. /\ cam[i].valid /\ t # ans /\ ~overwritten(i, lower)
      /\ t = nb_dc5 => ~cam_inv_reset(lower)
      /\ cam'[i].tag = t /\ cam'[i].rd = cam[i].rd
      /\ cam'[i].wb <=> cam[i].wb \/ (nonblock_load_valid_wb /\ t = nb_dc5)
  BY <1>1, <1>3, <1>4, EntryCases
<1>6. t \in Tags /\ cam[i].rd \in CamRegs \cup {0}
  BY <1>1 DEF CamTypeOK
<1>7. ~(nonblock_load_valid_dc3(lower) /\ t = tag)
  BY <1>1, <1>2, <1>5 DEF Held
<1> HIDE DEF t
<1>8. CASE t = nb_dc5
  <2>1. nb_dc5 \in Tags /\ nb_dc5 # NoTag
    BY <1>6, <1>8, TagsAreInts
  <2>2. load_commits_dc5(lower) /\ ~cam_reset_same_dest_wb(lower)
    BY <1>5, <1>8, <2>1 DEF cam_inv_reset, lsu_nonblock_load_inv_dc5
  <2>3. PICK l \in load_lane(pwb) :
          /\ bus_loads'[nb_dc5].rd = pwb[l].rd
          /\ pwb[l].rd # 0 /\ ~(l = 0 /\ same_dest_wb /\ ~i1_kill(lower)) =>
               bus_loads'[nb_dc5] = [st |-> "out", rd |-> pwb[l].rd, live |-> TRUE]
    BY <1>1, <1>5, <1>7, <1>8, <2>1, <2>2, CommittedLoad
  <2>4. pwb[l].rd = cam[i].rd
    <3>1. PICK j \in Tags : /\ cam[j].valid /\ cam[j].tag = nb_dc5
                            /\ \A m \in Lane : pwb[m].op = "load" => pwb[m].rd = cam[j].rd
      BY <1>1, <2>1 DEF PipeWaits, Waits
    <3>2. j = i
      BY <1>1, <1>5, <1>8, <3>1 DEF OneEntryPerTag, t
    <3> QED
      BY <3>1, <3>2 DEF load_lane
  <2>5. ~(l = 0 /\ same_dest_wb /\ ~i1_kill(lower))
    BY <2>1, <2>2 DEF cam_reset_same_dest_wb, load_lane, nonblock_load_valid_wb, i0_kill, i1_kill
  <2>6. cam'[i].tag = nb_dc5 /\ cam'[i].rd = cam[i].rd /\ cam'[i].wb
    BY <1>5, <1>8, <2>1 DEF nonblock_load_valid_wb
  <2>7. /\ bus_loads'[nb_dc5].rd = cam[i].rd
        /\ cam[i].rd # 0 => bus_loads'[nb_dc5].live
    BY <2>3, <2>4, <2>5
  <2> QED
    BY <2>6, <2>7
<1>9. CASE t # nb_dc5
  <2>1. /\ bus_loads'[t].st = bus_loads[t].st /\ bus_loads'[t].rd = bus_loads[t].rd
        /\ \/ bus_loads'[t] = bus_loads[t]
           \/ bus_loads[t].st = "out" /\ committed(bus_loads[t].rd, lower) # {}
    BY <1>1, <1>5, <1>6, <1>7, <1>9, KeptLoad
  <2>2. bus_loads[t].st = "out"
    BY <1>3, <1>5, <2>1
  <2>3. /\ cam[i].wb /\ bus_loads[t].rd = cam[i].rd
        /\ cam[i].rd # 0 => bus_loads[t].live
    BY <1>1, <1>5, <2>2 DEF Answered, t
  <2>4. cam[i].rd # 0 => committed(cam[i].rd, lower) = {}
    BY <1>5, <1>6, <2>3, WritersCommit DEF overwritten
  <2>5. cam[i].rd # 0 => bus_loads'[t] = bus_loads[t]
    BY <2>1, <2>3, <2>4
  <2> QED
    BY <1>5, <2>1, <2>3, <2>5
<1> QED
  BY <1>8, <1>9

-----------------------------------------------------------------------------
(* A register is fresh, or an entry waits for what makes it fresh.            *)

Settled(r) ==
  fresh[r] \/ \E t \in Tags :
                /\ bus_loads[t] = [st |-> "out", rd |-> r, live |-> TRUE]
                /\ \E i \in Tags : cam[i].valid /\ cam[i].tag = t /\ cam[i].rd = r

(* No lane commits a result of r: the data of a load may arrive. *)
LEMMA SettleNoCommit ==
  ASSUME CamIInv, NEW dec, NEW lower, NEW upper, NEW ext, NEW tag, NEW ans, NEW thaw,
         Edge(dec, lower, upper, ext, tag, ans, thaw),
         NEW r \in CamRegs, committed(r, lower) = {}
  PROVE  Settled(r)'
<1>1. /\ TagEdge(lower, tag, ans) /\ CamEdge(lower, tag, ans) /\ GprEdge(dec, lower, ext, ans)
      /\ CamTypeOK /\ Held /\ OneEntryPerTag /\ PipeWaits /\ Answered /\ Settled(r)
      /\ ans \in {NoTag} \cup answerable
  BY DEF Edge, CamEdges, CamIInv, RegistersSettle, Settled
<1>2. \A l \in Lane : ~(wen_wb(l, lower) /\ pwb[l].rd = r)
  BY WritersCommit
<1>3. ports(r, lower, ans) \subseteq {2}
  BY <1>2 DEF ports, port_wen
<1>4. CASE ports(r, lower, ans) = {2}
  <2>1. /\ ans # NoTag /\ nonblock_load_write(ans) # {} /\ dec_nonblock_load_waddr(ans) = r
    <3>1. 2 \in ports(r, lower, ans)
      BY <1>4
    <3>2. dec_nonblock_load_wen(ans, lower) /\ dec_nonblock_load_waddr(ans) = r
      BY <3>1 DEF ports, Lane
    <3> QED
      BY <3>2 DEF dec_nonblock_load_wen
  <2>2. PICK i \in nonblock_load_write(ans) : cam[i].rd = r
    BY <2>1 DEF dec_nonblock_load_waddr
  <2>3. i \in Tags /\ cam[i].valid /\ cam[i].tag = ans /\ bus_loads[ans].st = "out"
    BY <1>1, <2>1, <2>2 DEF nonblock_load_write, answerable
  <2>4. bus_loads[ans].rd = r /\ bus_loads[ans].live
    BY <1>1, <2>2, <2>3, NbLoadAssumption DEF Answered
  <2>5. fresh'[r] = (committed(r, lower) = {} /\ bus_loads[ans].rd = r /\ bus_loads[ans].live)
    BY <1>1, <1>4, FreshCases
  <2> QED
    BY <2>4, <2>5 DEF Settled
<1>5. CASE ports(r, lower, ans) = {}
  <2>1. fresh'[r] = (committed(r, lower) = {} /\ fresh[r])
    BY <1>1, <1>5, FreshCases
  <2>2. CASE fresh[r]
    BY <2>1, <2>2 DEF Settled
  <2>3. CASE ~fresh[r]
    <3>1. PICK t \in Tags :
            /\ bus_loads[t] = [st |-> "out", rd |-> r, live |-> TRUE]
            /\ \E i \in Tags : cam[i].valid /\ cam[i].tag = t /\ cam[i].rd = r
      BY <1>1, <2>3 DEF Settled
    <3>2. PICK i \in Tags : cam[i].valid /\ cam[i].tag = t /\ cam[i].rd = r
      BY <3>1
    <3>3. bus_loads[t].st = "out" /\ bus_loads[t].rd = r
      BY <3>1
    <3>4. t # nb_dc5
      BY <1>1, <3>3, TagsAreInts DEF PipeWaits, Waits
    <3>5. t # ans
      <4>1. SUFFICES ASSUME t = ans PROVE FALSE
        OBVIOUS
      <4>2. nonblock_load_write(ans) = {i}
        BY <1>1, <3>2, <4>1 DEF nonblock_load_write, OneEntryPerTag
      <4>3. dec_nonblock_load_waddr(ans) = r
        BY <3>2, <4>2 DEF dec_nonblock_load_waddr
      <4>4. dec_nonblock_load_wen(ans, lower)
        BY <1>2, <4>1, <4>2, <4>3, TagsAreInts DEF dec_nonblock_load_wen, nonblock_load_cancel
      <4> QED
        BY <1>5, <4>3, <4>4 DEF ports
    <3>6. ~(nonblock_load_valid_dc3(lower) /\ t = tag)
      BY <3>3 DEF Edge, free_tags
    <3>7. bus_loads'[t] = bus_loads[t]
      BY <1>1, <3>3, <3>4, <3>5, <3>6, KeptLoad
    <3>8. ~overwritten(i, lower)
      BY <1>2, <3>2 DEF overwritten
    <3>9. cam'[i].valid /\ cam'[i].tag = t /\ cam'[i].rd = r
      BY <1>1, <3>2, <3>4, <3>5, <3>8, KeptEntry
    <3> QED
      BY <3>1, <3>7, <3>9 DEF Settled
  <2> QED
    BY <2>2, <2>3
<1> QED
  BY <1>3, <1>4, <1>5

(* Lane k is the youngest that commits a result of r. *)
LEMMA SettleCommit ==
  ASSUME CamIInv, NEW dec, NEW lower, NEW upper, NEW ext, NEW tag, NEW ans, NEW thaw,
         Edge(dec, lower, upper, ext, tag, ans, thaw),
         NEW r \in CamRegs, NEW k \in committed(r, lower), k = 0 => 1 \notin committed(r, lower)
  PROVE  Settled(r)'
<1>1. /\ TagEdge(lower, tag, ans) /\ CamEdge(lower, tag, ans) /\ GprEdge(dec, lower, ext, ans)
      /\ CamTypeOK /\ OneEntryPerTag /\ OneLoad /\ PipeWaits
      /\ ans \in {NoTag} \cup answerable
  BY DEF Edge, CamEdges, CamIInv
<1>2. k \in Lane /\ v(pwb, k) /\ pwb[k].rd = r /\ r # 0
  BY NbLoadAssumption DEF committed
<1>3. CASE ~load_kill_wen(k)    \* the port of lane k is the only one
  <2>1. port_wen(k, lower)
    BY <1>2, <1>3 DEF port_wen, wen_wb, i0_wen_wb, i1_wen_wb, same_dest_wb, committed, Lane
  <2>2. ~dec_nonblock_load_wen(ans, lower) \/ dec_nonblock_load_waddr(ans) # r
    BY <1>2, <2>1 DEF dec_nonblock_load_wen, nonblock_load_cancel, port_wen
  <2>3. \A l \in Lane : l # k => ~(port_wen(l, lower) /\ pwb[l].rd = r)
    BY <1>2, <1>3 DEF port_wen, wen_wb, i0_wen_wb, i1_wen_wb, same_dest_wb, committed, Lane
  <2>4. ports(r, lower, ans) = {k}
    BY <1>2, <2>1, <2>2, <2>3 DEF ports
  <2>5. CASE k = 0
    <3>1. committed(r, lower) = {0}
      BY <2>5 DEF committed, Lane
    <3>2. fresh'[r] = (committed(r, lower) = {0})
      BY <1>1, <2>4, <2>5, FreshCases
    <3> QED
      BY <3>1, <3>2 DEF Settled
  <2>6. CASE k = 1
    <3>1. fresh'[r] = (1 \in committed(r, lower))
      BY <1>1, <2>4, <2>6, FreshCases
    <3> QED
      BY <2>6, <3>1 DEF Settled
  <2> QED
    BY <1>2, <2>5, <2>6 DEF Lane
<1>4. CASE load_kill_wen(k)     \* its entry in the CAM waits for the data
  <2>1. nb_dc5 # NoTag /\ nb_dc5 \in Tags /\ pwb[k].op = "load"
    BY <1>1, <1>4 DEF load_kill_wen, nonblock_load_valid_wb, CamTypeOK
  <2>2. load_commits_dc5(lower)
    BY <1>2, <2>1 DEF load_commits_dc5, load_lane, committed
  <2>3. PICK i \in Tags : /\ bus_loads[nb_dc5].st = "pipe"
                          /\ cam[i].valid /\ cam[i].tag = nb_dc5 /\ ~cam[i].wb
                          /\ \A l \in Lane : pwb[l].op = "load" => pwb[l].rd = cam[i].rd
    BY <1>1, <2>1 DEF PipeWaits, Waits
  <2>4. nb_dc5 # ans
    BY <1>1, <2>1, <2>3 DEF answerable
  <2>5. ~(nonblock_load_valid_dc3(lower) /\ nb_dc5 = tag)
    BY <2>3 DEF Edge, free_tags
  <2>6. ~(k = 0 /\ same_dest_wb /\ ~i1_kill(lower))
    BY <1>2 DEF same_dest_wb, committed, Lane
  <2>7. \A l \in load_lane(pwb) : l = k
    BY <1>1, <1>2, <2>1 DEF OneLoad, Pipe, load_lane, Lane
  <2>8. bus_loads'[nb_dc5] = [st |-> "out", rd |-> r, live |-> TRUE]
    <3>1. PICK l \in load_lane(pwb) :
            pwb[l].rd # 0 /\ ~(l = 0 /\ same_dest_wb /\ ~i1_kill(lower)) =>
              bus_loads'[nb_dc5] = [st |-> "out", rd |-> pwb[l].rd, live |-> TRUE]
      BY <1>1, <2>1, <2>2, <2>4, <2>5, CommittedLoad
    <3> QED
      BY <1>2, <2>6, <2>7, <3>1
  <2>9. ~cam_inv_reset(lower)
    <3>1. pwb[0].op = "load" => k = 0
      BY <2>7 DEF load_lane, Lane
    <3> QED
      BY <2>2, <2>6, <3>1 DEF cam_inv_reset, lsu_nonblock_load_inv_dc5, cam_reset_same_dest_wb
  <2>10. ~overwritten(i, lower)
    BY <2>3 DEF overwritten
  <2>11. cam'[i].valid /\ cam'[i].tag = nb_dc5 /\ cam'[i].rd = r
    BY <1>1, <1>2, <2>1, <2>3, <2>4, <2>9, <2>10, KeptEntry
  <2> QED
    BY <2>1, <2>8, <2>11 DEF Settled
<1> QED
  BY <1>3, <1>4

LEMMA SettleStep ==
  ASSUME CamIInv, NEW dec, NEW lower, NEW upper, NEW ext, NEW tag, NEW ans, NEW thaw,
         Edge(dec, lower, upper, ext, tag, ans, thaw)
  PROVE  RegistersSettle'
<1>1. ASSUME NEW r \in CamRegs PROVE Settled(r)'
  <2>1. CASE committed(r, lower) = {}
    BY <2>1, SettleNoCommit
  <2>2. CASE 1 \in committed(r, lower)
    BY <2>2, SettleCommit
  <2>3. CASE committed(r, lower) # {} /\ 1 \notin committed(r, lower)
    <3>1. 0 \in committed(r, lower)
      BY <2>3 DEF committed, Lane
    <3> QED
      BY <2>3, <3>1, SettleCommit
  <2> QED
    BY <2>1, <2>2, <2>3
<1> QED
  BY <1>1 DEF RegistersSettle, Settled

-----------------------------------------------------------------------------
(* What a decoded instruction reads.                                         *)

(* The load that wrote r last, or would, has an entry of the CAM or makes one now:
   decode stalls a reader of r. *)
LEMMA NoStallNoLoad ==
  ASSUME CamIInv, NEW lower, NEW r \in CamRegs, ~nonblock_load_stall(r, lower),
         ~flush_lower_wb(lower), ~flush_final_e3, NEW l \in Lane
  PROVE  /\ pe3[l].op = "load" /\ pe3[l].rd = r => ext_dc3 # "nb"
         /\ pe4[l].op = "load" /\ pe4[l].rd = r => nb_dc4 = NoTag
         /\ pwb[l].op = "load" /\ pwb[l].rd = r => nb_dc5 = NoTag
<1>1. \A i \in Tags : cam[i].valid => cam[i].rd # r
  BY DEF nonblock_load_stall
<1>2. ASSUME pe3[l].op = "load", pe3[l].rd = r, ext_dc3 = "nb" PROVE FALSE
  <2>1. nonblock_load_valid_dc3(lower)
    BY <1>2 DEF nonblock_load_valid_dc3, flush_dc3, flush_final_e3, i0_flush_final_e3
  <2>2. nonblock_load_rd = r
    BY <1>2 DEF nonblock_load_rd, CamIInv, OneLoad, Pipe, Lane
  <2> QED
    BY <2>1, <2>2 DEF nonblock_load_stall
<1>3. pe4[l].op = "load" /\ pe4[l].rd = r => nb_dc4 = NoTag
  BY <1>1 DEF CamIInv, PipeWaits, Waits
<1>4. pwb[l].op = "load" /\ pwb[l].rd = r => nb_dc5 = NoTag
  BY <1>1 DEF CamIInv, PipeWaits, Waits
<1> QED
  BY <1>2, <1>3, <1>4

LEMMA ReadersStep ==
  ASSUME CamIInv, NEW dec, NEW lower, NEW upper, NEW ext, NEW tag, NEW ans, NEW thaw,
         Edge(dec, lower, upper, ext, tag, ans, thaw)
  PROVE  ReadersSeeProgramOrder'
<1>1. /\ dec \in Decodes /\ CanDecode(dec, lower) /\ ext \in Ext(dec, lower)
      /\ misread' = \/ misread
                    \/ \E l \in DOMAIN dec : ~GetsLastWriter(dec, l)
                    \/ ~freeze(lower) /\ ReaderLeftAlone(dec, ext)
  BY DEF Edge, CamEdges, GprEdge
<1>2. ~misread /\ RegistersSettle
  BY DEF CamIInv, ReadersSeeProgramOrder
<1>3. ASSUME NEW l \in DOMAIN dec PROVE GetsLastWriter(dec, l)
  <2> DEFINE r == dec[l].rs
  <2>1. SUFFICES ASSUME r # 0 PROVE GetsLastWriter(dec, l)
    BY DEF GetsLastWriter
  <2>2. r \in CamRegs
    BY <1>1, <1>3, <2>1 DEF Decodes, Decodable
  <2>3. ~nonblock_load_stall(r, lower) /\ ~flush_lower_wb(lower) /\ ~flush_final_e3
    BY <1>1, <1>3, <2>1 DEF CanDecode
  <2>4. CASE writer(r) = {}
    <3>1. fresh[r]
      BY <1>2, <2>2, <2>3 DEF RegistersSettle, nonblock_load_stall
    <3> QED
      BY <2>4, <3>1 DEF GetsLastWriter
  <2>5. CASE writer(r) # {}
    <3>1. PICK x \in writer(r) : TRUE
      BY <2>5
    <3>2. x[1] \in 1..5 /\ x[2] \in Lane /\ Stage[x[1]][x[2]].rd = r
      BY <3>1 DEF writer
    <3>3. /\ x[1] = 3 => Stage[x[1]] = pe3
          /\ x[1] = 4 => Stage[x[1]] = pe4
          /\ x[1] = 5 => Stage[x[1]] = pwb
      BY <3>2 DEF Stage
    <3>4. Stage[x[1]][x[2]].op = "load" =>
            /\ x[1] = 3 => ext_dc3 # "nb"
            /\ x[1] = 4 => nb_dc4 = NoTag
            /\ x[1] = 5 => nb_dc5 = NoTag
      BY <2>2, <2>3, <3>2, <3>3, NoStallNoLoad
    <3>5. x[1] <= 2 \/ x[1] = 3 \/ x[1] = 4 \/ x[1] = 5
      BY <3>2
    <3> QED
      BY <3>1, <3>4, <3>5 DEF GetsLastWriter
  <2> QED
    BY <2>4, <2>5
<1>4. freeze(lower) \/ ~ReaderLeftAlone(dec, ext)
  BY <1>1 DEF Ext, dec_nonblock_load_freeze_dc2, ReaderLeftAlone
<1> QED
  BY <1>1, <1>2, <1>3, <1>4 DEF ReadersSeeProgramOrder

-----------------------------------------------------------------------------
(* The invariant.                                                            *)

LEMMA CamInitIInv == ASSUME CamInit PROVE CamIInv
<1>1. CamTypeOK
  <2>1. {pe1, pe2, pe3, pe4, pwb} \subseteq [Lane -> CamPacket]
    BY DEF CamInit, Bubble, None, CamPacket
  <2>2. cam \in [Tags -> [valid : BOOLEAN, wb : BOOLEAN, tag : Tags, rd : CamRegs \cup {0}]]
    BY NbLoadAssumption DEF CamInit, NoCam, Tags
  <2>3. bus_loads \in [Tags -> [st : {"free", "pipe", "out"}, rd : CamRegs \cup {0},
                                live : BOOLEAN]]
    BY DEF CamInit, NoLoad
  <2>4. fresh \in [CamRegs -> BOOLEAN]
    BY DEF CamInit
  <2> QED
    BY <2>1, <2>2, <2>3, <2>4 DEF CamInit, CamTypeOK
<1>2. Held /\ OneEntryPerTag /\ Answered
  BY DEF CamInit, Held, OneEntryPerTag, Answered, NoCam
<1>3. OneLoad /\ FrozenBlocks /\ PipeWaits
  BY DEF CamInit, OneLoad, Pipe, FrozenBlocks, PipeWaits, Bubble, None, Lane
<1>4. RegistersSettle /\ ReadersSeeProgramOrder
  BY DEF CamInit, RegistersSettle, ReadersSeeProgramOrder
<1> QED
  BY <1>1, <1>2, <1>3, <1>4 DEF CamIInv

LEMMA CamNextIInv == ASSUME CamIInv, [CamNext]_camVars PROVE CamIInv'
<1>1. CASE CamNext
  <2>1. PICK dec, lower, upper, ext, tag, ans, thaw :
          Edge(dec, lower, upper, ext, tag, ans, thaw)
    BY <1>1, NextIsEdge
  <2>2. CamTypeOK'
    BY <2>1, TypeStep DEF CamIInv
  <2>3. Held' /\ OneEntryPerTag'
    BY <2>1, OneEntryStep DEF CamIInv
  <2>4. OneLoad' /\ FrozenBlocks'
    BY <2>1, StagesStep DEF CamIInv
  <2>5. PipeWaits' /\ Answered' /\ RegistersSettle' /\ ReadersSeeProgramOrder'
    BY <2>1, PipeStep, AnsweredStep, SettleStep, ReadersStep
  <2> QED
    BY <2>2, <2>3, <2>4, <2>5 DEF CamIInv
<1>2. CASE UNCHANGED camVars
  BY <1>2 DEF camVars, CamIInv, CamTypeOK, Held, OneEntryPerTag, OneLoad, Pipe, FrozenBlocks,
              PipeWaits, Waits, Answered, RegistersSettle, ReadersSeeProgramOrder
<1> QED
  BY <1>1, <1>2

LEMMA CamInvariant == CamSpec => []CamIInv
<1> QED
  BY CamInitIInv, CamNextIInv, PTL DEF CamSpec

(* The registers of the lanes, of the CAM and of the tags keep their types, for
   every number of tags and registers. *)
THEOREM CamTypeCorrect == CamSpec => []CamTypeOK
<1>1. CamIInv => CamTypeOK
  BY DEF CamIInv
<1> QED
  BY <1>1, CamInvariant, PTL

(* No two entries of the CAM ever wait for the same tag: the one-hot assertions of
   dec_decode_ctl.sv hold for every number of tags. *)
THEOREM CamOneEntryPerTag == CamSpec => []OneEntryPerTag
<1>1. CamIInv => OneEntryPerTag
  BY DEF CamIInv
<1> QED
  BY <1>1, CamInvariant, PTL

(* A register that does not hold the result of its last committed writer has an
   entry of the CAM that waits for it, for every number of tags and registers and
   every order of the answers. *)
THEOREM CamRegistersSettle == CamSpec => []RegistersSettle
<1>1. CamIInv => RegistersSettle
  BY DEF CamIInv
<1> QED
  BY <1>1, CamInvariant, PTL

(* No decoded instruction reads an older value than program order gives it: a load
   whose data is on the bus always stalls its readers. *)
THEOREM CamReadersSeeProgramOrder == CamSpec => []ReadersSeeProgramOrder
<1>1. CamIInv => ReadersSeeProgramOrder
  BY DEF CamIInv
<1> QED
  BY <1>1, CamInvariant, PTL
=============================================================================
