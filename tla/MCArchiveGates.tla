---------------------------- MODULE MCArchiveGates ----------------------------
(****************************************************************************)
(* Two settings of the knobs, the library's own and the one of a consumer who  *)
(* suppresses the bare names and the slot exports and moves a slot.  Three    *)
(* members: lib_manifest.o, data.o with precalc_manifest.o, and lib_version.o *)
(* with zp_config.o, each pair as one object.  For each gate the sources are  *)
(* a sound one and one for each way it names of being wrong, the wrong ones   *)
(* wrong under one setting only where a stale file would hide it.             *)
(****************************************************************************)
EXTENDS ArchiveGates

MCKnobs == {"", "nobare"}
MCMembers == {"manifest", "tables", "version"}

Name(id, family, glued) == [id |-> id, family |-> family, glued |-> glued]
V1 == Name("LIB_VERSION_MAJOR", "version", FALSE)
P1 == Name("LIB_PRECALC_sqtab_SIZE", "precalc", FALSE)
P2 == Name("LIB_PRECALC_sqtab_REGION", "precalc", TRUE)
P3 == Name("LIB_PRECALC_x25519_mul38_SIZE", "precalc", FALSE)
A1 == Name("LIB_X25519_RESIDENT_BYTES", "aggregate", FALSE)
O1 == Name("LIB_X25519_PRECALC_sqtab_SIZE", "other", FALSE)

MCExpect == [k \in MCKnobs |-> IF k = "" THEN [precalc |-> 2, version |-> 1]
                               ELSE [precalc |-> 0, version |-> 0]]

Sized(code, data, init, sqtab) == [code |-> code, data |-> data, init |-> init, sqtab |-> sqtab]
Equates(resident, cold, window, region) ==
    [resident |-> resident, cold |-> cold, window |-> window, region |-> region]

IsolationGood ==
    [exports |-> [k \in MCKnobs |-> [m \in MCMembers |->
                     CASE m = "manifest" -> {A1}
                       [] m = "version" -> IF k = "" THEN {V1} ELSE {}
                       [] m = "tables" -> IF k = "" THEN {O1, P1, P2} ELSE {O1}]]]

MCIsolation ==
    LET Good == IsolationGood
    IN  { Good,
          [Good EXCEPT !.exports[""]["manifest"] = {A1, P2}, !.exports[""]["tables"] = {P1}],
          [Good EXCEPT !.exports[""]["tables"] = {A1, P2, P1}],
          [Good EXCEPT !.exports[""]["tables"] = {O1, P1, P2, P3}],
          [Good EXCEPT !.exports[""]["tables"] = {O1, P1, P2, V1}, !.exports[""]["version"] = {}],
          [Good EXCEPT !.exports[""]["manifest"] = {A1, V1}, !.exports[""]["version"] = {}],
          [Good EXCEPT !.exports["nobare"]["version"] = {V1}],
          [Good EXCEPT !.exports["nobare"]["tables"] = {O1, P2}],
          [Good EXCEPT !.exports[""]["tables"] = {P1}, !.exports["nobare"]["tables"] = {P2}] }

FootprintGood ==
    [size    |-> [k \in MCKnobs |-> [m \in MCMembers |->
                     CASE m = "manifest" -> Sized(3, 0, 1, 0)
                       [] m = "version" -> Sized(0, 0, 0, 0)
                       [] m = "tables" -> IF k = "" THEN Sized(2, 4, 0, 0) ELSE Sized(2, 2, 0, 0)]],
     equate  |-> [k \in MCKnobs |-> IF k = "" THEN Equates(13, 1, 4, 4) ELSE Equates(11, 1, 4, 4)],
     fill    |-> [g \in {"code", "data", "init", "sqtab"} |-> 0],
     rows    |-> {"code", "data", "init"}]

MCFootprint ==
    LET Good == FootprintGood
    IN  { Good,
          [Good EXCEPT !.equate[""].resident = 12],
          [Good EXCEPT !.equate["nobare"].resident = 10],
          [Good EXCEPT !.equate["nobare"].cold = 0],
          [Good EXCEPT !.equate[""].region = 3],
          [Good EXCEPT !.size[""]["tables"].sqtab = 4],
          [Good EXCEPT !.fill["data"] = 2],
          [Good EXCEPT !.rows = {"code", "init"}],
          [Good EXCEPT !.rows = {}] }

(* Slots: two pointers' bytes, a byte and a block; the consumer moves the block. *)
Slot(name, addr, size) ==
    [name |-> name, addr |-> addr, size |-> size, listed |-> TRUE, export |-> "guarded"]
Beside(addr, export) ==
    [name |-> "x25_probe", addr |-> addr, size |-> 1, listed |-> FALSE, export |-> export]

MCNoExports == {"nobare"}
MCPassed == [k \in MCKnobs |-> IF k = "" THEN {} ELSE {"fe_wide", "ZP_CONFIG_NO_EXPORTS"}]
Slots(wide) == {Slot("fe25519_src1", 30, 2), Slot("fe_carry", 38, 1), Slot("fe_wide", wide, 4)}

ZpGood == [slots |-> [k \in MCKnobs |-> IF k = "" THEN Slots(64) ELSE Slots(48)],
           usage |-> [k \in MCKnobs |-> 7]]
MCZp ==
    LET Good == ZpGood
    IN  { Good,
          [Good EXCEPT !.slots[""] = @ \cup {Beside(66, "guarded")}],
          [Good EXCEPT !.slots[""] = @ \cup {Beside(80, "never")}],
          [Good EXCEPT !.slots["nobare"] = @ \cup {Beside(49, "guarded")}],
          [Good EXCEPT !.slots["nobare"] = @ \cup {Beside(80, "always")}],
          [Good EXCEPT !.slots["nobare"] = Slots(28)],
          [Good EXCEPT !.slots["nobare"] = Slots(252)],
          [Good EXCEPT !.slots["nobare"] = Slots(253)],
          [Good EXCEPT !.slots["nobare"] = Slots(1)],
          [Good EXCEPT !.usage[""] = 6],
          [Good EXCEPT !.usage["nobare"] = 6] }

(* Tables: two of a page each and one of 80 bytes, a staging buffer; without   *)
(* the bare names the same.                                                   *)
Label(name, at, size) == [name |-> name, at |-> at, size |-> size]
Entry(name, prefixed, size, region) ==
    [name |-> name, prefixed |-> prefixed, size |-> size, region |-> region]
MCExempt == {"mul_dma_lo"}
DataLabels == {Label("sqr_lo", 512, 256), Label("sqr_hi", 768, 256), Label("clamp", 1024, 80)}

PrecalcGood ==
    [labels  |-> [k \in MCKnobs |-> [m \in MCMembers |->
                     CASE m = "tables" -> DataLabels
                       [] m = "manifest" -> {Label("mul_dma_lo", 2048, 256)}
                       [] m = "version" -> {}]],
     end     |-> [k \in MCKnobs |-> [m \in MCMembers |->
                     CASE m = "tables" -> 1104 [] m = "manifest" -> 2304 [] m = "version" -> 2304]],
     entries |-> [k \in MCKnobs |-> [m \in MCMembers |->
                     IF m # "tables" THEN {}
                     ELSE {Entry("sqr_lo", TRUE, 256, "rodata"), Entry("sqr_hi", TRUE, 256, "rodata"),
                           Entry("sqtab", FALSE, 1024, "ram")}]]]
MCPrecalc ==
    LET Good == PrecalcGood
        lo == Entry("sqr_lo", TRUE, 256, "rodata")
    IN  { Good,
          [Good EXCEPT !.entries[""]["tables"] = @ \ {lo}],
          [Good EXCEPT !.entries["nobare"]["tables"] = {}],
          [Good EXCEPT !.entries[""]["tables"] = (@ \ {lo}) \cup {Entry("sqr_lo", FALSE, 256, "rodata")}],
          [Good EXCEPT !.entries[""]["tables"] = (@ \ {lo}) \cup {Entry("sqr_lo", TRUE, 255, "rodata")}],
          [Good EXCEPT !.entries["nobare"]["tables"] = (@ \ {lo}) \cup {Entry("sqr_lo", TRUE, 256, "ram")}],
          [Good EXCEPT !.labels[""]["tables"] = @ \cup {Label("sqr_low", 512, 256)}],
          [Good EXCEPT !.labels[""]["tables"] = (@ \ {Label("clamp", 1024, 80)}) \cup {Label("clamp", 1024, 256)},
                       !.end[""]["tables"] = 1280],
          [Good EXCEPT !.labels[""]["tables"] = {Label("sqr_lo", 512, 256), Label("wide", 768, 512)},
                       !.end[""]["tables"] = 1280,
                       !.entries[""]["tables"] = {Entry("wide", TRUE, 512, "rodata")}],
          [Good EXCEPT !.labels["nobare"] = [m \in MCMembers |-> {}]] }

MCSources == [isolation |-> MCIsolation, footprint |-> MCFootprint, zp |-> MCZp, precalc |-> MCPrecalc]
==============================================================================
