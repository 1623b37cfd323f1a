------------------------------ MODULE M0Matrix ------------------------------
(***************************************************************************)
(* The experiment matrix of the payload harness (src/payload/main.c): what *)
(* the CPU writes before every dispatch, which bytes m0_run_gpu fills and  *)
(* watches, and which bytes the verdict reads.  The control around the     *)
(* rows is in M0Harness.                                                   *)
(*                                                                         *)
(* A value is <<kind, id, n>>: "fill" a memset byte, "in" an input the CPU *)
(* wrote, "out" what a correct kernel run produces, "junk" anything else.  *)
(* Experiments with the same "out" id expect the same words.  A verdict    *)
(* that rests on its words being its own (Own in M0Harness: G20, M1C, B)   *)
(* has an id that no row with the same words in its bytes lacks.           *)
(* Kernel code and user data are the name of the kernel; offsets and sizes *)
(* are the source's, in bytes.                                             *)
(***************************************************************************)
EXTENDS Naturals, Sequences, SequencesExt

CONSTANT Iters      \* cap on the iterations of one size in a timed series
                    \* (PAI_ADD1D_ITERS and the like are 10 to 1000)
ASSUME ItersAssumption == Iters \in Nat \ {0}

MiB == 1048576                                        \* M0_DMA_BYTES
Junk == <<"junk", "", 0>>
In(id, n) == <<"in", id, n>>
Out(id, n) == <<"out", id, n>>
Fill(b, lo, hi, byte) == <<b, lo, hi, <<"fill", byte, 0>>>>
Cpu(b, hi, id) == <<b, 0, hi, In(id, 0)>>
Bytes(b, lo, hi) == <<b, lo, hi>>
Nowhere == <<"none", 0, 0>>
CC(hi) == Fill("c", 0, hi, "CC")
C(hi) == Bytes("c", 0, hi)

\* One dispatch: the CPU writes in order, the watched bytes with their fill,
\* the bytes the CPU reads back and the value it expects there.
Step(kern, cpu, watch, chk, val) ==
    [kern |-> kern, cpu |-> cpu, uses |-> {}, watch |-> watch, chk |-> chk,
     val |-> val, timed |-> FALSE, extra |-> FALSE, say |-> ""]

\* One experiment.  mode: "all" every read-back counts and all steps run,
\* "stop" the first bad one ends it, "retry" the first good one ends it,
\* "last" only the last counts.  verdict: it ends in m0_exp_report.
Exp(name, mode, steps) ==
    [name |-> name, mode |-> mode, steps |-> steps \o <<>>, reset |-> TRUE,
     verdict |-> TRUE, strict |-> FALSE, after |-> "", any |-> FALSE]

Probe(name, cpu, watch, chk) ==
    Exp(name, "all", <<Step(name, cpu, watch, chk, Out(name, 0))>>)
Silent(e) == [e EXCEPT !.verdict = FALSE, !.steps[1].chk = Nowhere]
Expect(e, id) == [e EXCEPT !.steps[1].val = Out(id, 0)]
Uses(e, S) == [e EXCEPT !.steps[1].uses = S]

\* No input, 128 bytes of C watched, lanes 0 .. hi/4-1 of C checked.
Lanes(name, hi) == Probe(name, <<>>, CC(128), C(hi))
\* The 0xA5 fill of C is the input: c[0], c[1] become fill + 4i + 3.
FillSum(name) ==
    LET a5 == Fill("c", 0, 128, "A5")
    IN  Expect(Probe(name, <<a5>>, a5, C(8)), "A5+4i+3")
\* Result block of C cleared first, then 64 bytes watched.
Ramp(name, clear, cpu, hi) == Probe(name, <<CC(clear)>> \o cpu, CC(64), C(hi))
-----------------------------------------------------------------------------
(* Before the v0 model: m0_exp_regscan .. m0_exp_loads_arith.              *)
E40 == [k \in 1..11 |->
          Silent(Probe("E40", <<>>, Fill("c", 0, 128, "EE"), C(128)))]
E39c == <<Probe("E39c", <<>>, CC(256), C(256))>>
E38 == <<Probe("E38", <<Cpu("a", 128, "E38")>>, CC(128), C(128))>>
E45_E46 == <<Expect(Lanes("E45", 128), "i+1.5"),
             Expect(Lanes("E46", 128), "i+1.5")>>
-----------------------------------------------------------------------------
(* m0_exp_v0model, in the order of the source.                             *)
E34 == <<Expect(Probe("E34", <<Cpu("a", 128, "E34")>>, CC(128), C(128)), "a")>>
E35 == <<Uses(Expect(Lanes("E35", 128), "a"), {Cpu("a", 128, "E34")})>>
E36 == <<Probe("E36", <<>>, Fill("dst", 0, 128, "00"), Bytes("dst", 0, 128))>>
E37 == <<Probe("E37", <<Cpu("a", 128, "E37"), Cpu("b", 128, "E37")>>,
               CC(128), C(128))>>
E48_E50 == <<Lanes("E48", 128), Silent(Lanes("E49", 128)),
             Silent(Lanes("E50", 128))>>
F6 == <<Expect(Lanes("F6", 128), "i+1.5")>>
\* H11 and H12 run in place: the watched bytes are their input.
InPlace(name) == Probe(name, <<Cpu("a", 128, name)>>,
                       Fill("a", 0, 128, "EE"), Bytes("a", 0, 32))
H12 == <<InPlace("H12")>>
H13 == <<Probe("H13", <<Cpu("a", 128, "H13")>>, CC(512), C(128))>>
H11 == <<InPlace("H11")>>
H10 == <<Probe("H10", <<Cpu("a", 4, "H10")>>, CC(128), C(32))>>
H7_H9 == [i \in 1..3 |-> Silent(Probe("H7", <<Cpu("a", 128, "H7")>>,
                                      CC(512), C(128)))]
H4_H6 == [i \in 1..3 |-> Silent(Probe("H4", <<Cpu("a", 128, "H4")>>,
                                      CC(512), C(128)))]
H1_H3 == LET ab == <<Cpu("a", 128, "H1"), Cpu("b", 128, "H1")>>
         IN  <<Probe("H1", ab, CC(512), C(128)), Probe("H3", ab, CC(512), C(128))>>
G15 == <<Lanes("G15", 32)>>
\* G16, G18: c[tid] stored and loaded back into c[tid+32].
G16 == <<Expect(Probe("G16", <<CC(512)>>, CC(128), Bytes("c", 128, 144)), "self")>>
G18 == <<Expect(Probe("G18", <<CC(512)>>, CC(128), Bytes("c", 128, 144)), "self")>>
\* G19: c[0] is written by the CPU and lies in the watched bytes.
G19 == <<Expect(Probe("G19", <<CC(512), Cpu("c", 4, "G19")>>, CC(128),
                      Bytes("c", 256, 272)), "A5A5A5A5")>>
\* G20: the fill is the input; c[64..67] is not cleared, and G19 expects the
\* same words there.
G20 == <<Expect(Probe("G20", <<Fill("c", 0, 128, "A5")>>, Fill("c", 0, 128, "A5"),
                      Bytes("c", 256, 272)), "A5A5A5A5")>>
G21 == <<Exp("G21", "last", [i \in 1..5 |-> FillSum("G21").steps[1]])>>
G22 == <<FillSum("G22")>>
-----------------------------------------------------------------------------
(* The series: one kernel, growing sizes, several iterations per size, the *)
(* first bad iteration ends the series.                                    *)
Sizes(name, steps) == [Exp(name, "stop", steps) EXCEPT !.strict = TRUE]
ItersFor(n) == IF n <= 4096 THEN 1..Iters ELSE 1..1

\* Iterations of one size: the input is written once, before the first.
Series(name, n, in, out, hi, bytes) ==
    [i \in ItersFor(n) |->
       [Step(name, IF i = 1 THEN in ELSE <<>>, Fill(out, 0, bytes, "CC"),
             Bytes(out, 0, hi), Out(name, n))
        EXCEPT !.uses = {in[j] : j \in DOMAIN in}, !.extra = (out = "xc")]]

m0_add1d_run_n(n) ==
    IF 8 * n <= MiB
    THEN Series("add1d", n, <<<<"a", 0, 8 * n, In("add1d", n)>>>>, "c", 4 * n, 4 * n)
    ELSE Series("add1d", n, <<<<"xa", 0, 8 * n, In("add1d", n)>>>>, "xc", 4 * n, 4 * n)
m0_saxpy_run_n(n) ==
    IF 8 * n <= MiB
    THEN Series("saxpy", n, <<<<"a", 0, 8 * n, In("saxpy", n)>>>>, "c", 4 * n, 4 * n)
    ELSE Series("saxpy", n, <<<<"xa", 0, 8 * n, In("saxpy", n)>>>>, "xc", 4 * n, 4 * n)
m0_dot_serial_run_n(n) ==
    Series("dot", n, <<<<"a", 0, 8 + 8 * n, In("dot", n)>>>>, "c", 4, 16)
\* W (behind its header) and x; W goes to a buffer of its own above 1 MiB.
\* A row of the result depends on K alone.
GemvIn(m, k) ==
    <<<<IF 16 + 4 * m * k <= MiB THEN "a" ELSE "xa", 0, 16 + 4 * m * k,
        In("gemv", k)>>, <<"b", 0, 4 * k, In("gemv", k)>>>>
GemvExtra(m, k, s) == [s EXCEPT !.extra = (16 + 4 * m * k > MiB),
                                !.val = Out("gemv", k)]
m0_gemv_serial_run(m, k) ==
    LET s == Series("gemv", m * k, GemvIn(m, k), "c", 4 * m, 4 * m)
    IN  [i \in DOMAIN s |-> GemvExtra(m, k, s[i])]
\* Warm-up through m0_run_gpu, then timed iterations with one fence each.
m0_gemv_serial_bench(m, k) ==
    LET w == Step("gemv", GemvIn(m, k), CC(4 * m), C(4 * m), Out("", 0))
        t == [w EXCEPT !.cpu = <<>>, !.timed = TRUE,
                       !.uses = {GemvIn(m, k)[j] : j \in 1..2}]
    IN  [i \in 1..1 + Iters |-> GemvExtra(m, k, IF i = 1 THEN w ELSE t)]

\* G23 is the verdict of the size 8 inside the series.
SayG23(s) == [i \in DOMAIN s |-> [s[i] EXCEPT !.say = "G23"]]
M0_G == <<Sizes("G", m0_add1d_run_n(1) \o SayG23(m0_add1d_run_n(8)) \o
            m0_add1d_run_n(32) \o m0_add1d_run_n(256) \o m0_add1d_run_n(4096) \o
            m0_add1d_run_n(32768) \o m0_add1d_run_n(131072) \o
            m0_add1d_run_n(1048576))>>
Saxpy == <<Sizes("S", m0_saxpy_run_n(8) \o m0_saxpy_run_n(256) \o
             m0_saxpy_run_n(4096) \o m0_saxpy_run_n(1048576))>>
M1B == <<Sizes("M1B", m0_dot_serial_run_n(1) \o m0_dot_serial_run_n(8) \o
           m0_dot_serial_run_n(256) \o m0_dot_serial_run_n(4096) \o
           m0_dot_serial_run_n(65536))>>
M1D == <<Sizes("M1D", m0_gemv_serial_run(8, 8) \o
           m0_gemv_serial_run(8, 256) \o m0_gemv_serial_run(256, 8) \o
           m0_gemv_serial_run(64, 256) \o m0_gemv_serial_run(256, 256) \o
           m0_gemv_serial_run(256, 1024))>>
\* The bandwidth series has no reset in front and calls no m0_exp_report: it
\* logs a size as VALIDATED when its warm-up and all its iterations are good.
M1D_bandwidth ==
    <<[Sizes("M1D bandwidth", m0_gemv_serial_bench(8, 8) \o
        m0_gemv_serial_bench(256, 1024) \o m0_gemv_serial_bench(64, 4096) \o
        m0_gemv_serial_bench(256, 4096) \o m0_gemv_serial_bench(256, 8192))
       EXCEPT !.reset = FALSE, !.verdict = FALSE]>>
-----------------------------------------------------------------------------
G24 == <<FillSum("G24")>>
\* G25: two LDS configurations, the first that works ends it.
G25 == <<Exp("G25", "retry", [t \in 1..2 |->
           Step("G25", <<>>, CC(128), C(4), Out("G25", 0))])>>
\* M1C runs only if G25 passed, without a reset.
M1C == <<[Lanes("M1C", 32) EXCEPT !.reset = FALSE, !.after = "G25"]>>
G26 == <<FillSum("G26")>>
G27 == <<FillSum("G27")>>
Float(name, id) == Expect(Probe(name, <<CC(512)>>, CC(128), C(32)), id)
G28_G30 == <<Float("G28", "4i+3"), Float("G29", "4i+3+k"), Float("G30", "4i+3+k")>>
G31_G32 == <<Silent(Float("G31", "-")), Silent(Float("G32", "-"))>>
G33 == <<Float("G33", "4i+3+k")>>
G34_G35 == <<Float("G34", "4i+3+k"), Float("G35", "4i+3+k")>>
G36 == <<FillSum("G36")>>
G37_G38 == <<FillSum("G37"), FillSum("G38")>>
G39 == <<Probe("G39", <<Cpu("a", 1032, "G39")>>, CC(16), C(4))>>
G40 == <<Probe("G40", <<Cpu("a", 1040, "G40"), Cpu("b", 128, "G40")>>, CC(64), C(32))>>
\* G41 checks 64 results of which it clears 16.
G41 == <<Probe("G41", <<Cpu("a", 512, "G41")>>, CC(64), C(256))>>
G42_G46 == [i \in 1..5 |-> Expect(Ramp("G42", 256, <<Cpu("a", 512, "G42")>>, 256),
                                  <<"G42", "G43", "G44", "G45", "G46">>[i])]
G47 == <<Ramp("G47", 256, <<Cpu("a", 96, "G47"), Cpu("b", 256, "G47")>>, 256)>>
G48 == <<Ramp("G48", 256, <<Cpu("a", 24, "G48"), Cpu("b", 512, "G48")>>, 64)>>
G49_G53 == [i \in 1..5 |-> Expect(Ramp("G49", 256, <<Cpu("a", 512, "G49")>>, 256),
                                  <<"G49", "G50", "G51", "G52", "G53">>[i])]
G54 == <<Ramp("G54", 256, <<Cpu("a", 24, "G54"), Cpu("b", 512, "G54")>>, 64)>>
G55 == <<Expect(Ramp("G55", 256, <<>>, 32), "base+ki")>>
G56 == <<Expect(Ramp("G56", 256, <<Cpu("a", 8, "G56")>>, 32), "base+ki")>>
Block(name, hi) == Ramp(name, 256, <<Cpu("a", 64, "block")>>, hi)
G57 == <<Expect(Block("G57", 32), "h[i]")>>
G58 == <<Expect(Block("G58", 32), "h[i]")>>
G59 == <<Expect(Block("G59", 32), "h[0]")>>
G60 == <<Expect(Block("G60", 32), "h[0]")>>
G61 == <<Expect(Block("G61", 32), "h[0]")>>
G62 == <<Expect(Block("G62", 32), "h[0]")>>
G63 == <<Expect(Block("G63", 4), "h[0]")>>
G64 == <<Expect(Block("G64", 32), "h[7+i]")>>
G65_G66 == <<Ramp("G65", 256, <<>>, 32), Ramp("G66", 256, <<>>, 32)>>
\* The RoPE table: cos half in c[0,512), sin half in c[512,1024).  G68 and
\* G69 use the header G67 wrote, G70 shifts it by a quarter turn.
SinHalf == Bytes("c", 512, 1024)
FillSin == Fill("c", 512, 1024, "CC")
Header67 == {Cpu("a", 520, "G67")}
G67 == <<Ramp("G67", 1024, <<Cpu("a", 520, "G67")>>, 512)>>
G68 == <<Uses(Probe("G68", <<>>, FillSin, SinHalf), Header67)>>
G69 == <<Uses(Probe("G69", <<CC(1024)>>, FillSin, SinHalf), Header67)>>
G70 == <<Probe("G70", <<CC(1024), Cpu("a", 520, "G70")>>, FillSin, SinHalf)>>
Unary(name) == Probe(name, <<CC(256), Cpu("a", 264, name)>>, CC(256), C(256))
G71 == <<Unary("G71")>>
G72 == <<Unary("G72")>>
\* G73: one dispatch per row, the header rewritten for each.
G73 == <<Exp("G73", "stop", [i \in 1..8 |->
           Step("fgemv", (IF i = 1 THEN <<CC(256), Cpu("b", 1024, "G73")>> ELSE <<>>)
                         \o <<<<"a", 0, 528, In("G73", i)>>>>,
                Fill("c", 32 * (i - 1), 32 * i, "CC"),
                Bytes("c", 32 * (i - 1), 32 * i), Out("G73", i))])>>
-----------------------------------------------------------------------------
(* Chains: what one dispatch left in C is read back and feeds the next.    *)
(* A stage is <<kernel, bytes written to a, to b, watched lo, hi, read-back *)
(* lo, hi>>; Link numbers the stages.  The rows of one GEMM share a value. *)
Link(name, stages) ==
    Exp(name, "all", [i \in DOMAIN stages |->
        LET g == stages[i] IN
        Step(g[1], <<<<"a", 0, g[2], In(name, i)>>, <<"b", 0, g[3], In(name, i)>>>>,
             Fill("c", g[4], g[5], "CC"),
             IF g[6] = g[7] THEN Nowhere ELSE Bytes("c", g[6], g[7]),
             Out(name, IF g[1] = "fgemv" THEN i - g[4] \div (g[5] - g[4]) ELSE i))])

\* M rows of N columns: header and W in a, the rows in b, one dispatch per
\* row; C is read back after the last.
m0_exp_gemm_g40(m, k, n) ==
    [i \in 1..m |-> <<"fgemv", 16 + 4 * k * n, 4 * m * k, 4 * n * (i - 1), 4 * n * i,
                      0, IF i = m THEN 4 * n * m ELSE 0>>]
m0_exp_rope_tables_gpu(ctx, r2) ==
    LET t == 4 * ctx * r2 IN
    <<<<"ropegen_cos", 8 + t, 0, 4096, 4096 + t, 4096, 4096 + t>>,
      <<"ropegen_cos", 8 + t, 0, 4096 + t, 4096 + 2 * t, 4096 + t, 4096 + 2 * t>>>>
\* Header kernels read a; packed pairs are in b.
Unit(kern, n) == <<kern, 8 + 4 * n, 0, 0, 4 * n, 0, 4 * n>>
Pairs(kern, n) == <<kern, 0, 8 * n, 0, 4 * n, 0, 4 * n>>
m0_exp_attn_row_gpu(seq, hd) ==
    m0_exp_gemm_g40(1, hd, seq) \o <<Unit("nlexp_exp", seq), Unit("nlexp_rcp", 1)>>
    \o m0_exp_gemm_g40(1, seq, hd)
m0_exp_rmsnorm_gpu(rows, n) == FlattenSeq([r \in 1..rows |->
    m0_exp_gemm_g40(1, n, 1) \o <<Unit("nlexp_rsq", 1), Pairs("t4_mul1d", n)>>])
m0_exp_silu_gpu(n) == <<Unit("nlexp_exp", n), Pairs("t4_add1d", n),
                        Unit("nlexp_rcp", n), Pairs("t4_mul1d", n)>>
m0_exp_add_gpu(n) == <<Pairs("t4_add1d", n)>>
BiasAdd(rows, n) == [r \in 1..rows |-> <<"t4_biasadd", 24, 8 * n, 0, 4 * n, 0, 4 * n>>]

\* Prefill of the decoder: D = 8, two heads of 4, three positions, MLP 16,
\* vocabulary 16; attention, norms and SiLU on the CPU in G74.
G74_attention == m0_exp_rope_tables_gpu(3, 2) \o
    m0_exp_gemm_g40(3, 8, 8) \o m0_exp_gemm_g40(3, 8, 8) \o m0_exp_gemm_g40(3, 8, 8) \o
    m0_exp_gemm_g40(3, 8, 8)
G74 == <<Link("G74", G74_attention \o m0_exp_gemm_g40(3, 8, 16) \o
    m0_exp_gemm_g40(3, 16, 8) \o m0_exp_gemm_g40(3, 8, 16))>>
G75 == <<Unary("G75")>>
G76 == <<Exp("G76", "all", <<
    Step("max", <<CC(256), Cpu("a", 520, "G76")>>, CC(256), C(256), Out("G76", 1)),
    [Step("min", <<>>, CC(256), C(256), Out("G76", 2))
        EXCEPT !.uses = {Cpu("a", 520, "G76")}]>>)>>
\* Decode loop: the prefill of K and V, then one position per step.
G77_prefill == m0_exp_rope_tables_gpu(7, 2) \o m0_exp_gemm_g40(3, 8, 8) \o
    m0_exp_gemm_g40(3, 8, 8) \o m0_exp_gemm_g40(3, 8, 8)
G77_step == m0_exp_gemm_g40(1, 8, 8) \o m0_exp_gemm_g40(1, 8, 8) \o
    m0_exp_gemm_g40(1, 8, 8) \o m0_exp_gemm_g40(1, 8, 8) \o
    m0_exp_gemm_g40(1, 8, 16) \o m0_exp_gemm_g40(1, 16, 8) \o
    m0_exp_gemm_g40(1, 8, 16)
G77 == <<Link("G77", G77_prefill \o FlattenSeq([g \in 1..4 |-> G77_step]))>>
\* Attention on the GPU: per row p and head, over the positions up to p.
G78 == <<Link("G78", FlattenSeq([i \in 1..12 |->
           m0_exp_attn_row_gpu((i + 1) \div 2, 4)]))>>
G79 == <<Link("G79", m0_exp_rmsnorm_gpu(4, 8))>>
G80 == <<Link("G80", m0_exp_silu_gpu(16))>>
G81_attention == FlattenSeq([i \in 1..6 |-> m0_exp_attn_row_gpu((i + 1) \div 2, 4)])
G81_qkv == m0_exp_rope_tables_gpu(3, 2) \o m0_exp_gemm_g40(3, 8, 8) \o
    m0_exp_gemm_g40(3, 8, 8) \o m0_exp_gemm_g40(3, 8, 8)
G81 == <<Link("G81", G81_qkv \o G81_attention \o m0_exp_gemm_g40(3, 8, 8) \o
    m0_exp_add_gpu(24) \o m0_exp_rmsnorm_gpu(3, 8) \o m0_exp_gemm_g40(3, 8, 16) \o
    BiasAdd(3, 16) \o m0_exp_silu_gpu(48) \o m0_exp_gemm_g40(3, 16, 8) \o
    BiasAdd(3, 8) \o m0_exp_add_gpu(24) \o m0_exp_rmsnorm_gpu(3, 8) \o
    m0_exp_gemm_g40(3, 8, 16))>>
-----------------------------------------------------------------------------
\* G17 reads the kernel's own ring: any words but the fill pass.
G17 == <<[Ramp("G17", 512, <<>>, 32) EXCEPT !.any = TRUE, !.steps[1].watch = CC(128)]>>
G13_G14 == <<Silent(Lanes("G13", 128)), Lanes("G14", 128)>>
G9_G12 == [i \in 1..4 |-> Silent(Lanes("G9", 128))]
G7_G8 == <<Probe("G7", <<>>, CC(512), C(128)), Probe("G8", <<>>, CC(512), C(128))>>
F5 == <<Silent(Lanes("F5", 128))>>
F1_F4 == <<Expect(Lanes("F1", 128), "i+1.5"), Expect(Lanes("F2", 32), "4i+3"),
           Expect(Lanes("F3", 128), "i+1.5"), Lanes("F4", 128)>>
m0_exp_v0model ==
    E34 \o E35 \o E36 \o E37 \o E48_E50 \o F6 \o H12 \o H13 \o H11 \o H10 \o H7_H9 \o
    H4_H6 \o H1_H3 \o G15 \o G16 \o G18 \o G19 \o G20 \o G21 \o G22 \o M0_G \o Saxpy \o
    M1B \o M1D \o M1D_bandwidth \o G24 \o G25 \o M1C \o G26 \o G27 \o G28_G30 \o
    G31_G32 \o G33 \o G34_G35 \o G36 \o G37_G38 \o G39 \o G40 \o G41 \o G42_G46 \o G47 \o
    G48 \o G49_G53 \o G54 \o G55 \o G56 \o G57 \o G58 \o G59 \o G60 \o G61 \o G62 \o G63
    \o G64 \o G65_G66 \o G67 \o G68 \o G69 \o G70 \o G71 \o G72 \o G73 \o G74 \o G75 \o
    G76 \o G77 \o G78 \o G79 \o G80 \o G81 \o G17 \o G13_G14 \o G9_G12 \o G7_G8 \o F5 \o
    F1_F4
-----------------------------------------------------------------------------
(* The rest of stage E writes DST.  memset16 fills are one value: the 16   *)
(* byte pattern {DEADBEEF, ..}.                                            *)
OnDst(name, watched, checked) ==
    <<Probe(name, <<>>, Fill("dst", 0, watched, "00"), Bytes("dst", 0, checked))>>
m0_exp_store64_variant(name, words) == OnDst(name, 4 * words, 4 * words)
m0_exp_golden_mutant(name) == <<Silent(Expect(OnDst(name, 1024, 1024)[1], "pattern"))>>
\* Only E19 and E19b are checked: 1024 bytes, of which 64 are cleared.
m0_exp_bisect(name, store) ==
    IF store THEN <<Expect(OnDst(name, 64, 1024)[1], "DEADBEEF")>>
             ELSE <<Silent(OnDst(name, 64, 64)[1])>>
m0_exp_memset(name, blocks) == <<Expect(OnDst(name, 16 * blocks, 16 * blocks)[1], "pattern")>>
m0_exp_memset_preamble(name, blocks) ==
    <<Expect(OnDst(name, 16 * blocks, 16 * blocks)[1], "pattern")>>
m0_exp_store_const64(name) == <<Expect(OnDst(name, 128, 128)[1], "const64")>>
m0_exp_store_const(name) == <<Expect(OnDst(name, 128, 128)[1], "const")>>
m0_exp_loadstore(name) ==
    <<Expect(Probe(name, <<Cpu("a", 128, "loadstore")>>, CC(128), C(128)), "loadstore")>>
E31 == <<Probe("E31", <<Cpu("a", 128, "E31")>>, CC(128), C(128))>>

m0_stage_e ==
    E40 \o E39c \o E38 \o E45_E46 \o m0_exp_v0model \o
    m0_exp_store64_variant("E32", 256) \o m0_exp_store64_variant("E30", 256) \o E31 \o
    m0_exp_golden_mutant("G1") \o m0_exp_golden_mutant("G2") \o
    m0_exp_golden_mutant("G3") \o m0_exp_golden_mutant("G5") \o
    m0_exp_golden_mutant("G6") \o m0_exp_golden_mutant("G4") \o
    m0_exp_bisect("E15", FALSE) \o m0_exp_bisect("E16", FALSE) \o
    m0_exp_bisect("E17", FALSE) \o m0_exp_bisect("E18", FALSE) \o
    m0_exp_bisect("E19", TRUE) \o m0_exp_bisect("E19b", TRUE) \o
    m0_exp_store64_variant("E22", 256) \o m0_exp_store64_variant("E20", 128) \o
    m0_exp_store64_variant("E21", 256) \o m0_exp_memset("E3", 64) \o
    m0_exp_store_const64("E5") \o m0_exp_memset_preamble("E6", 64) \o
    m0_exp_store_const64("E7") \o m0_exp_memset("E4", 1024) \o
    m0_exp_store_const("E1b") \o m0_exp_loadstore("E2b") \o
    m0_exp_store_const("E1") \o m0_exp_loadstore("E2")
-----------------------------------------------------------------------------
(* Stages A, B0, B and C.  A and B are strict: they also fail when         *)
(* m0_run_gpu reports that no execution was observed.                      *)
Stage(name, reset, e) == [e EXCEPT !.name = name, !.reset = reset, !.strict = TRUE]
m0_stage_a == <<Stage("A", FALSE, Probe("dma", <<Cpu("src", MiB, "A")>>,
                   Fill("dst", 0, MiB, "00"), Bytes("dst", 0, MiB)))>>
m0_stage_b0 == <<Stage("B0", TRUE, m0_exp_memset("memset16", 1024)[1])>>
VecAdd == Step("vecadd", <<Cpu("a", 128, "B"), Cpu("b", 128, "B")>>, CC(128), C(128),
               Out("B", 0))
m0_stage_b == <<Stage("B", FALSE, Exp("vecadd", "all", <<VecAdd>>))>>
\* The benchmark repeats stage B's dispatch (2 warm-up + 10 iterations,
\* capped at Iters) and does not look at the result.
m0_stage_c == <<[Exp("C", "all", [i \in 1..Iters |->
                   [VecAdd EXCEPT !.cpu = <<>>, !.chk = Nowhere]])
                 EXCEPT !.reset = FALSE, !.verdict = FALSE]>>
Program == m0_stage_a \o m0_stage_e \o m0_stage_b0 \o m0_stage_b \o m0_stage_c
=============================================================================
