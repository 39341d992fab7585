# TLA+ models of the OCaml float primitives (`floats.c`)

This directory holds the TLA+ models of
`src/kfreebsd/runtime/ocaml/floats.c`. That file is the float primitive layer
of the OCaml runtime as built for mirage-platform's FreeBSD kernel target. The
models are checked with TLC. `PROJECT.json` lists the components, the runs,
the mutants, the map from every modelled definition to the lines it
translates, the findings and the hazards.

## 1. Inventory

The file is one component seen from outside: a catalogue of C primitives that
the OCaml runtime calls synchronously. The calls happen one at a time on the
calling thread. Nothing is persisted. Inside the file there are several parts:

| Part | Code | State it keeps | Operations |
|---|---|---|---|
| Boxing | `caml_copy_double`, `caml_Double_val`, `caml_Store_double_val` (85-120) | a `Double_tag` heap block. With `ARCH_ALIGN_DOUBLE` the double is stored as two words in union order | allocate a block and store into it (`Alloc_small`, which may run a minor GC), read it back |
| Parsing | `caml_float_of_string`, `caml_float_of_substring` (190-259) | a 64-byte stack buffer or a `caml_stat_alloc` heap buffer, plus the `src`/`dst` cursors | bound check, buffer choice, copy loop that deletes `_`, NUL terminator, emptiness check, `strtod`, end check, free, then box the result or `caml_failwith` |
| Formatting | `caml_format_float` (122-188) | a 370-byte stack buffer or a heap buffer sized from the format | scan width and precision with `atoi`, choose the buffer, `sprintf` (or `fixpt_to_str` in the kernel), copy to an OCaml string, free |
| Compound results | `caml_frexp_float`, `caml_modf_float` (356-418) | registered local roots (`CAMLparam`/`CAMLlocal`) | two or three allocations in a row, then tuple fields are stored |
| Comparisons | `caml_eq_float` … `caml_gt_float`, `caml_float_compare` (647-715) | none | six C relations and a three-way compare that maps NaN to 0 |
| Bit inspection | `double_as_two_int32`, `caml_copysign`, `caml_classify_float` (613-645, 717-762) | none | split a double into high and low words in target order, mask, classify |
| C99 fallbacks | `caml_hypot`, `caml_expm1`, `caml_log1p` (537-611) | none | formulas used when `HAS_C99_FLOAT_OPS` is not defined |
| Wrappers | `caml_neg_float` … `caml_ceil_float`, `ldexp`, conversions (261-535) | none | unbox, then one `libm` or `fixmath` call, then box |
| FPU init | `caml_init_ieee_floats` (777-781) | the FPU mask | `fpsetmask(0)`, only on old FreeBSD |

Two builds are selected when the file is compiled. The **hosted** build uses
`libm` with IEEE doubles. The **kernel** build (`__FreeBSD__ && _KERNEL`)
uses `fixmath`, whose `__double` is a fixed-point number with no NaN and no
infinities.

How the parts interact. Every primitive that returns a float boxes it with
`caml_copy_double`. Any allocation may run a minor collection, which moves
every block reachable from a registered root and rewrites those roots. A
primitive that allocates more than once (frexp, modf) must therefore
register what it allocated first. Parsing and formatting use `malloc`-style
buffers from `caml_stat_alloc`. These must be freed on every exit, including
before `caml_failwith`, which leaves the function with a longjmp, and before
an allocation that can raise `Out_of_memory`. Comparisons and classification
are pure. The polymorphic compare and the sort functions of the standard
library rely on them being mutually consistent.

What is hard:
- **Boundaries.** The slice check in `float_of_substring` mixes signed and
  unsigned arithmetic. The stack-buffer test is strict `<` to leave room for
  the NUL. The width and precision arithmetic in `format_float` can overflow
  `int`.
- **Failure paths.** A buffer must be released before `caml_failwith` and
  before a raising allocation.
- **Moving GC.** In frexp and modf, a pointer held across an allocation is
  stale unless it is a registered root.
- **Special values.** NaN makes `compare` return 0 against everything, and
  the C99 fallbacks mishandle infinities.
- **Target dependence.** The word order of a double differs between targets,
  and the kernel build has its own `lt`.

Properties that make each part correct:
- **Parsing:** reads stay inside the string and writes inside the chosen
  buffer. The heap buffer is freed exactly once on every path. The result is
  the spec's result: separators deleted, failure on empty or partly consumed
  text.
- **Compound results:** the returned tuple holds the right boxed values
  whatever collections ran.
- **Comparisons:** compare follows the spec's NaN rule, and each relation
  agrees with compare.
- **Bit inspection:** classification equals the IEEE classification for
  every bit pattern on every target.
- **Formatting:** the output fits the chosen buffer.
- **Conversions:** `int_of_float` truncates, and the round trip through
  `float_of_int` keeps every integer the significand holds. `ldexp_float`
  scales by the exponent it was given.

## 2. Plan

Modules are listed in order of importance. Those marked ✔ exist.

1. ✔ `FloatOfString`: the only primitives with an error path and a heap
   buffer. MC module `MCFloatOfString`.
2. ✔ `FloatAllocRoots`: boxing, the `ARCH_ALIGN_DOUBLE` layout, and frexp and
   modf under a moving collector. MC module `MCFloatAllocRoots`.
3. ✔ `FloatCompare`: the seven comparison primitives in both builds. Checked
   in `MCFloatHosted` (item 8).
4. ✔ `FloatBits`: `double_as_two_int32` per target (little-endian,
   big-endian, old-ABI ARM, EABI ARM). Classify in all three branches and the
   copysign fallback over a scaled-down IEEE layout, checked against a
   reference classification defined on the fields. Checked in
   `MCFloatHosted` (item 8).
5. ✔ `FloatFormat`: `caml_format_float` in both builds, buffer sizing
   included. MC module `MCFloatFormat`. In the kernel build, what
   `fixpt_to_str` writes beside the decimals it is asked for is a constant,
   because fixmath is not in this repository.
6. ✔ `FloatFallbacks`: the non-C99 `caml_hypot`, `caml_expm1` and
   `caml_log1p` on every argument of `BinaryFloat`'s format, NaN, the
   infinities and signed zeros included. libm's `exp` and `log` are
   correctly rounded tables; `sqrt` is IEEE's correctly rounded square root.
7. ✗ A one-step parse contract refined by `FloatOfString`. Not kept:
   see "Not modelled".
8. ✔ `FloatConv`: `int_of_float`, `float_of_int`, `ldexp_float` and the
   exact wrappers (neg, abs, add, sub, mul, div, floor, ceil, fmod, sqrt). It uses
   a scaled binary format with exact round-to-nearest-even arithmetic. The
   format lives in `BinaryFloat`. `MCFloatHosted` composes `FloatConv`,
   `FloatFallbacks`, `FloatCompare`, `FloatLibm` (item 9) and `FloatBits`:
   a caller calls any one of their primitives, and every run of the five
   uses it.
9. ✔ `FloatLibm`: the fourteen hosted libm wrappers (exp, log, log10, pow,
   sin … atan, atan2), with libm given by its C99 Annex F contract.

Still open:
- `caml_init_ieee_floats`. See section 5.

The parts share no state, only the boxing discipline. The five modules of
`MCFloatHosted` share its variables `call` and `pc`, each acting only on the
calls of its own primitives. `FloatAllocRoots` models that discipline once, for the primitives
whose correctness depends on it.

## 3. Modules and runs

### FloatOfString (`caml_float_of_string`, `caml_float_of_substring`)

State: the arguments `vs`, `fidx` and `flen`; `len` (the `while (len--)`
counter); `src` (offset into `vs`); `buf` and `cap` (the buffer chosen and
its size); `written` (the bytes stored through `dst`); `frees`; `oobRead`
(a history flag); `outcome`.

Actions, one per code step:
- `Enter`: computes `len` and chooses the buffer (`SubstringLen`,
  `FitsStack`).
- `EnterAllocFails`: `caml_stat_alloc` raises.
- `CopyChar`: one iteration of the copy loop. A read outside `vs` is
  undefined behaviour and returns any byte.
- `Terminate`: stores the NUL and applies the `dst == buf` test, `strtod` and
  the `end != dst` test.
- `ReturnDouble`: frees, then boxes the result. `caml_copy_double` is a
  minor-heap `Alloc_small`. It does not raise, because a minor collection
  that runs out of memory is a fatal error, not an exception.
- `RaiseFailure`: frees, then `caml_failwith`.

Data abstraction. A byte is `DIGIT`, `POINT`, `UNDERSCORE`, `NUL` (a zero
byte inside the OCaml string) or `"x"` (a byte `strtod` rejects). `strtod`
returns the longest prefix of the C string that is a decimal literal: digits
with at most one point and at least one digit. Exponents, signs, `inf`, `nan`
and hex literals are left out; they only enlarge the set of accepted
literals. A double is the text `strtod` converted.

Run `parse` (`MCFloatOfString.cfg`, pass, 176k states) checks these
invariants. The bounds:
- Every string of up to 4 bytes over 5 bytes.
- Both entry points, with `idx` and `l` in -1..5.
- The stack buffer is scaled to 3 bytes, so lengths 0-2 go to the stack and
  3-4 to the heap. Length 2 fills the stack buffer exactly with its NUL.
- `mlsize_t` is 3 bits wide, so an `idx` past the end makes `lenvs - fidx`
  wrap.

Properties:
- `ReadsInBounds`: the copy loop never reads outside `vs`.
- `WritesInBounds`: the copy and its NUL fit in the chosen buffer.
- `BufferReleased`: the heap buffer is freed exactly once on every path, and
  the stack buffer never.
- `ParseCorrect`: the result is `Ok(cleaned)` exactly when the separator-free
  slice is a literal. A slice with an embedded NUL, an empty slice and a
  slice with trailing bytes all give `Failure`.

### FloatAllocRoots (`caml_copy_double`, `caml_Double_val`/`Store_double_val`, `caml_frexp_float`, `caml_modf_float`)

State:
- `heap`: address to block.
- `locals`: the C locals. The names in `FrexpRoots`/`ModfRoots` are the
  registered roots.
- `ret`.
- `arg`: the argument, kept as history.
- `ALIGN_DOUBLE`: fixed for a behaviour; both builds are checked.

The collector is not code of this file and is the environment here. Each
`Alloc` either places the block at a free address, or first runs a minor
collection and then places it. The collection moves every block reachable
from the roots to a fresh address, rewrites the roots and the tuple fields,
and frees everything else. Unregistered locals keep their old address.

Doubles are dyadic rationals, so frexp and modf are computed exactly.

Actions: `FrexpMantissa`, `ModfQuo`, `ModfRem`, `AllocTuple`, `FillAndReturn`.

Run `alloc_roots` (pass, 48k states). The bounds: 7 addresses, enough to move
the three live blocks of modf and still place a fourth block. There are 11
inputs: zero, proper fractions, mixed numbers and integers of both signs.
`ResultIntact` states that at return the tuple holds live boxed doubles with
the decomposition of the argument, and for frexp the immediate exponent.

### FloatCompare (the seven comparison primitives)

The hosted domain is NaN, ±0, ±1, ±2 and ±∞. The kernel domain is the
fixed-point values -2..2. The state is the call (`op`, `f`, `g`, `res`)
and `pc`. `Init` chooses the primitive and its arguments; the actions are
`CallRelation`, `CallCompare` and `Returned`. `MCFloatHosted` (below)
instantiates it with `MaxMag = 2` and the `Backend` its cfg names.

Runs:
- `hosted` (pass) checks, of this module, `CompareMatchesSpec` checks that `float_compare`
  is the sign of f − g, and 0 when either operand is NaN.
  `RelationsAgreeWithCompare` checks that each relation agrees with compare,
  and that with NaN only `neq` holds.
- `compare_kernel_lt` (violation). `caml_lt_float` of the kernel build
  computes `<=` (line 677), so `lt(0, 0)` is true.
- `compare_total_order` (violation). The spec's §8 claims compare is a total
  order. `compare(0, nan) = 0`, `compare(nan, -1) = 0` and
  `compare(0, -1) = 1` contradict transitivity. The code comment at 708-709
  describes a different convention ("NaN < x"), whose code is disabled by
  `#if 0`.

### FloatBits (`double_as_two_int32`, `caml_copysign`, `caml_classify_float`)

A double is two words of `WB` bits, held as `[hi, lo]`. The high word holds
the sign bit, `EB` exponent bits and `MH = WB - 1 - EB` mantissa bits. With
`WB = 4` and `EB = 2` there is one high mantissa bit and four low ones,
which gives every class: zero, subnormal, normal, infinity and NaN. The masks
`0xFFFFF`, `0x7FF00000`, `0x7FFFFFFF` and `0x80000000` are the same fields
at this width.

`target` fixes the order in which the hardware puts the two words in memory
(`Memory`). It also fixes the order the union's `#if` reads them in
(`HighWordFirst`). `impl` chooses the branch of `caml_classify_float`:
- `fpclassify`: libm is assumed correct, and its `FP_*` name goes through
  the code's `switch`.
- `kernel`: `d == 0`.
- `manual`: the mask code.

There is one action per primitive, `CallClassify` or `CallCopysign`, on every
bit pattern.

Checked in `MCFloatHosted` (run `hosted`), where the bit-inspection calls
come with every `target` and `impl`. The other calls run with one fixed
value of each, because they never read them:
- `ClassifyCorrect`: the result is the class defined from the exponent and
  mantissa fields. A kernel value is only ever zero or normal.
- `CopysignCorrect`: the result keeps both words of x's magnitude and takes
  y's sign, on every target.

The mutants catch:
- a union that leaves out old-ABI ARM;
- an exponent mask that includes the sign bit;
- an enum that does not match OCaml's `fpclass`.

### FloatFormat (`caml_format_float`)

State:
- `fmt` and `d`: the arguments.
- `BROKEN_PRINTF`: the `HAS_BROKEN_PRINTF` build flag. It is fixed per
  behaviour, and both values are checked.
- `KERNEL`: the kernel build, likewise fixed per behaviour. Its `__double`
  is fixed-point, so its `d` is always finite.
- `digits`: the decimals the kernel build asks `fixpt_to_str` for.
- `p`, `prec`, `buf` and `cap`: the C locals, with `cap` the size of `dest`.
- `written`: the bytes `sprintf` stored, NUL included.
- `frees`.
- `outcome`: the length of the returned string, or `Out_of_memory`.

Actions, one per code step:
- `LiteralNonFinite`: the `HAS_BROKEN_PRINTF` `else` branch.
- `ScanWidth` and `ScanPrecision`: the two `for` loops, with `atoi` and the
  `int` addition wrapping at `INT_BITS`.
- `ChooseBuffer` and `BufferAllocFails`.
- `Sprintf` (hosted) or `FixptToStr` (kernel). `FixptToStr` passes
  `FixptDigits(prec)`, which is `prec - MAX_DIGITS` when that is positive and
  `MAX_DIGITS` otherwise. fixmath is not in this repository. `fixpt_to_str`
  is taken to write those decimals plus `FIX_EXTRA` characters: sign,
  integer digits, point and NUL.
- `CopyAndFree`.
- `CopyRaises`: `caml_copy_string` of a string longer than the minor heap
  takes goes through `caml_alloc_shr`, which raises `Out_of_memory` when the
  heap cannot grow.

`sprintf` is the environment. Its output length comes from the C printf
rules (`Conversion` parses flags, width, precision and conversion as printf
does; `Rendered` gives the length). A double is abstracted to its kind, its
sign and its decimal exponent, standing for a double with no trailing zero
digits. That is the longest rendering for its exponent.

Bounds (`MCFloatFormat`):
- `MAX_DIGITS = 8`, with at most 5 integer digits under `%f`. This is the
  tightest margin for which the code's argument works: sign, point and NUL
  need 3 more characters than the integer digits, and the code has
  350 ≥ 309 + 3.
- `int` is 6 bits wide, so `INT_MAX = 31`.
- The formats are "%", then at most one of the flags `- + # 0`, a width and
  a precision each made of up to two digits from `{0, 2}`, and one of `f`,
  `e` or `g`. That is 840 formats. The widths 20 and 22 reach the heap
  buffer, and width 20 gives `prec` equal to the stack buffer's size.
- Exponents -5, -1, 0 and 4. These cover `%g` in its e-style,
  `0.xxx`, one digit, and the largest value.
- Results longer than 21 bytes go to the major heap.
- `FIX_EXTRA = MAX_DIGITS = 8`. The code leaves room for this many
  characters beside the decimals in the heap buffer (`prec` bytes for
  `prec - MAX_DIGITS` decimals). In `format_buffer` it leaves 20 bytes beside
  `MAX_DIGITS` decimals. The heap buffer is therefore the tight case at this
  scale, where 8 < 20. In the code, 20 < 350, so it is the stack case. In
  either case the run shows that the sizing holds for any `fixpt_to_str`
  that writes no more than the margin.

Runs:
- `format` (pass, 196k states). `OutputFits`: the output and its NUL never
  exceed the chosen buffer, in both builds. In the kernel build this covers
  the 350 decimals asked for when the format gives no width or precision,
  and the width-sized heap buffer. The mutants are a missing `prec = MAX_DIGITS`
  (caught by `TypeOK`, which requires `prec >= MAX_DIGITS`) and the
  precision scan without the margin.
- `format_int_overflow` (violation). The width 29 (digits `{2, 9}`) makes
  `atoi + MAX_DIGITS = 37` wrap to -27. `prec` stays 8, the 28-byte stack
  buffer is chosen, and `sprintf` writes 30 bytes. In the code this needs a
  width above `INT_MAX - 350`.
- `format_leak` (violation). TLC's trace is the kernel build's `%20f`:
  `prec` becomes 28, the 28-byte heap buffer is chosen, `fixpt_to_str`
  writes 28 bytes, and `caml_copy_string` of the result raises before the
  free at 165-167, so the buffer is never freed. The hosted `%22f` (a
  30-byte heap buffer) leaks the same way. `float_of_string` frees before it allocates; `format_float` does
  not.
- `format_kernel_digits` (violation). `DecimalsAsPrecision` says that the
  kernel build asks for the format's precision (printf's default is 6). For
  `%f` it asks for `MAX_DIGITS` decimals instead: 350 in the code, and
  `%8.2f` would ask for 8. The conditional at 160 takes the larger of the
  width and the precision, and falls back to `MAX_DIGITS`. The spec's
  `format_float("%.2f", 3.14159) = "3.14"` holds only while the precision
  is at least the width.

### BinaryFloat (the FPU and libm arithmetic), FloatConv (integer conversions, `ldexp_float` and the exact wrappers)

**The double format (`BinaryFloat`).** `BinaryFloat` has no variables. It
is the arithmetic behind the primitives. A double is a binary floating-point
number in a scaled-down format:
- `PREC` significand bits;
- a smallest step of `2^-FRAC`;
- `EXPS` binades above the subnormal range.

A finite double holds its magnitude exactly, as a count of steps (a dyadic
rational). `Round(n, num, den)` gives the double nearest to `num/den` steps.
It rounds to nearest with ties to even. A result at or past `Big` becomes
infinity, which is IEEE 754's overflow threshold. `Add`, `Mul`, `Div`,
`Floor`, `Ceil`, `Fmod`, `Ldexp`, `FromInt` and `Sqrt` (correctly rounded,
as IEEE 754 requires of sqrt) are the libm and FPU results on that format.
`FloatConv` and `FloatFallbacks` both extend it.

**The integer macros.** They are written as OCaml defines them for an
`intnat` of `LONG_BITS` bits:
- `Val_long(x) = (x << 1) + 1`, wrapping at the word width;
- `Long_val(v)`, an arithmetic shift;
- `Int_val(v) = (int) Long_val(v)`, truncated to `INT_BITS` bits.

**The code.**
- `caml_int_of_float` is `Val_long((intnat) d)`. The cast truncates toward
  zero. For NaN, infinities and values beyond `intnat` the cast is undefined
  in C. `CastResults` then allows every `intnat`, because the build returns
  whatever its conversion instruction gives.
- `caml_float_of_int` is `FromInt(Long_val(n))`.
- `caml_ldexp_float` is `Ldexp(x, Int_val(i))`.
- `UnaryFloat` and `BinaryFloat` dispatch neg, abs, floor, ceil, sqrt, add,
  sub, mul, div and fmod.
- `ConvertBack` is a caller passing the boxed result of `float_of_int n` to
  `int_of_float`, which is OCaml's `truncate (float_of_int n)`. `call.from`
  records `n`.

**Instance (`MCFloatHosted`).** The format has `PREC = 3`, `FRAC = 2` and
`EXPS = 5`, so doubles run from 1/4 to 56, then infinity. `intnat` has 6
bits, which gives OCaml ints -16..15. `int` has 4 bits. At this scale:
- `max_int = 15` rounds up to 16;
- the cast overflows `intnat` from 32 upwards;
- `ldexp` overflows and underflows;
- `Int_val` drops bits.

Every double, every OCaml int and every operator is enumerated.

Runs:
- `hosted` (pass) checks, of this module, two properties:
  - `TypeOK`;
  - `SmallIntsRoundTrip`: `truncate (float_of_int n) = n` for
    `|n| <= 2^PREC`, through `Val_long`, `Long_val`, the rounding and the
    cast.

  Their mutants: `Val_long` without its wrap, and `Long_val` as a logical
  shift. A property that `int_of_float` truncates whenever the result is an
  int, or that `ldexp` is exact for exponents that fit an `int`, would only
  restate lines 266 and 378 under the condition that makes the macros the
  identity; the cases where they go wrong are the two violation runs below
  and the undefined cast, whose result can be any `intnat`.
- `conv_roundtrip` (violation) checks `RoundTripTruncates`. The spec calls
  both conversions truncating, but `(double) n` rounds to nearest. So
  `truncate (float_of_int (-15))` is -16; TLC's trace is -11, which
  rounds to -12. `float_of_int max_int` is
  `max_int + 1`, and `int_of_float` of that wraps through `Val_long` to
  `min_int`. At 64 bits, `float_of_int max_int = 2^62`.
- `conv_ldexp` (violation) checks `LdexpScales`. `Int_val` keeps only the low
  `INT_BITS` bits of the exponent, so in the model `ldexp (1/4) (-16)`
  returns 1/4 instead of 0. At 64 bits, `ldexp 1.0 (1 lsl 32)` returns 1.0
  instead of infinity.

### FloatFallbacks (`caml_hypot`, `caml_expm1`, `caml_log1p` without C99)

`Hypot`, `Expm1` and `Log1p` are lines 538-552 and 567-592, statement by
statement, with every `fabs`, `<`, `+`, `-`, `*`, `/`, `sqrt` and `==` done
by `BinaryFloat` and rounded as the FPU rounds. That covers the NaN
returns, the swap, the `x == 0` return, Kahan's `u == 1` and
`u - 1 == -1` tests, and the final quotients. libm's `exp` and `log` are
correctly rounded (glibc's are). They are constants, `ExpTable` and
`LogTable`, that map each finite double to a signed step count; on NaN,
the infinities and zeros they are IEEE's. C99's `expm1` and `log1p`,
correctly rounded, are `Expm1Table` and `Log1pTable`. With C99 Annex F
(F.9.3.3, F.9.3.9, F.9.4.3) for the special values, they make `C99`, the
reference. `MCFloatHosted` gives all four tables on its format, and
`ASSUME Fallbacks!TablesComplete` makes TLC refuse a table that misses an
argument the fallbacks read it at.

The calls range over every double, and for hypot every pair of doubles.

Runs:
- `hosted` (pass) checks, of this module, three properties:
  - `AnnexFExact`: where Annex F fixes the result outright, the fallbacks
    return it exactly. This covers signed zeros through expm1 and log1p,
    `hypot(x, ±0) = |x|` and `hypot(±0, y) = |y|`, NaN propagation without
    an infinity, `expm1(-inf) = -1`, `log1p(-1) = -inf` and NaN below -1,
    -inf included. Its mutant drops log1p's `u == 1` return, after which
    `log1p(0)` is 0/0.
  - `KahanKeepsSign`: wherever `exp(x)` is finite for expm1, and for every
    x > -1 for log1p, the formulas never give NaN and keep the sign of x,
    signed zeros included. Its mutant drops expm1's `u == 1` return.
  - `HypotNoUndueOverflow`: with both magnitudes finite and at most
    `DBL_MAX / 2` the result is finite. The swap keeps `ratio <= 1`; its
    mutant drops the swap, and then `hypot(1/4, 28)` computes `ratio = 112`
    and `ratio * ratio` overflows.
- `fallbacks_c99` (violation) checks `NaNAndInfinityAsC99`: wherever Annex
  F says, the primitives give NaN exactly where C99 does and an infinity
  exactly where C99 does. It fails in these ways:
  - `hypot(inf, nan)` is NaN, because the NaN test comes first (the trace
    TLC prints), and `hypot(inf, inf)` is NaN, because it computes
    `inf/inf`.
  - `expm1(+inf)` and `log1p(+inf)` are both NaN, computed as
    `inf * inf / inf`.
  - `(u - 1) * x` overflows although `expm1(x)` is finite. In the model
    `expm1(3)` is +inf, because `(20 - 1) * 3` rounds past 56. In IEEE
    doubles this happens for x from about 703.
  - When `exp(x)` overflows, the result is `inf / inf = NaN`. In IEEE
    doubles this is x above 709.78.
  - `log(u) * x` overflows for the largest x, so `log1p` returns +inf. In
    IEEE doubles this is x above about 2.5e305.

  C99 and the spec's "IEEE propagation flows through unmodified" give
  +inf or a finite value in every one of these cases.

### FloatLibm (`caml_exp_float`, `caml_log_float`, `caml_log10_float`, `caml_power_float`, `caml_sin_float` … `caml_atan_float`, `caml_atan2_float`)

Each of these fourteen primitives is one line in the hosted build:
`caml_copy_double(f(Double_val(x)))`, or `f(Double_val(x), Double_val(y))`
for `pow` and `atan2`. The code decides only which libm function it calls and
in which order it passes the operands, so that is what the module checks.
libm is given by its contract, C99 Annex F (F.9), as the set of results it
allows. At the special arguments Annex F fixes the value: `Annex1` for the
one-argument functions, `Pow` (F.9.4.4) and `Atan2` (F.9.1.4). Outside a
function's domain the result is NaN. Everywhere else it is any double but
NaN, because Annex F leaves the rounding of a transcendental value to the
library. The rounded constants pi, pi/2, pi/4 and 3pi/4 are `Round`ed from
355/113. The actions are `CallExp`, `CallLog` (log and log10), `CallPower`,
`CallTrig` (sin, sinh, cos, cosh, tan, tanh, asin, acos, atan), `CallAtan2`
and `Returned`. Each chooses one of libm's allowed results, and `Return`
boxes it. The arguments (`Args`) are NaN, both infinities, both zeros and
±1/2, ±1, ±2, ±3. These reach every special case of the contract: |x| on
each side of 1, odd and even integers, and a non-integer.

The module has no property of its own. Each action chooses its result
from the very set Annex F allows, so a property that the result is one of
them would hold by construction and restate line 434. The actions take
part in run `hosted`, where the other components' properties must hold
over the states they reach.

The kernel branch calls `fixpt_*` of fixmath, which is not in this
repository.

### MCFloatHosted (the composition)

`MCFloatHosted` declares `call` and `pc` and instantiates `FloatConv`,
`FloatFallbacks`, `FloatCompare`, `FloatLibm` and `FloatBits` on them:
`Init` is the disjunction of the five `Init`s (one call of any primitive on
doubles). `Next` is every action of the five components, each under the
`op` the runtime dispatches to it, and one `Returned` stutter for all five. Only the
called component moves. Each property is a component's,
guarded by `op` the same way, under its own name. The cfgs fix `PREC = 3`,
`FRAC = 2`, `EXPS = 5`, `LONG_BITS = 6`, `INT_BITS = 4`, `MaxMag = 2` and
`Backend`: "kernel" in `MCFloatHosted_kernel_lt.cfg`, "hosted" in the
others. `FloatBits` adds the variables `target` and `impl`, which the other four
leave unchanged, and `WB = 4`, `EB = 2`. Run `hosted` reaches 1,638,947
states in about 50 seconds.

## 4. Fairness

No run checks liveness, and no specification states fairness. Every
primitive runs on the calling thread with nothing to wait for, so weak
fairness of its next-state relation would be justified, but under it the
only liveness to state is that the call returns, which holds by the shape
of the models: every loop (the copy loop, the format scans) shortens a
bounded counter on each step. Once a call has
returned, the `Returned` step lets the behaviour stutter. Deadlock is
therefore checked and never reported.

## 5. Not modelled, and why

- The values of the transcendental functions away from Annex F's special
  arguments. `FloatLibm` lets libm return any non-NaN double there, because
  C99 does not fix the rounding. A finite format has no exact value to
  compare with unless it has a libm of its own.
- The kernel branch of every wrapper and conversion (`fixpt_add`,
  `fixpt_to_int`, `fixpt_from_int`, ...). fixmath is not in this
  repository.
- `caml_init_ieee_floats`. It calls `fpsetmask(0)` on FreeBSD before 4.0R,
  a hardware setting with no state in this file. The runtime calls it at
  startup before any OCaml code runs.
- What `fixpt_to_str` writes beside the decimals (line 160). fixmath is not
  in this repository, so `FloatFormat` takes it as the constant `FIX_EXTRA`.
- `fixmath`, `libm`, `strtod`, `sprintf` and the collector. They are external
  and enter only as the environment described above.
- A refinement of `FloatOfString` to a one-step parse contract. Its safety
  half would be `ParseCorrect` again (the abstract outcome is the concrete
  one once the call returns, none before), and its liveness half holds by
  the shape of the copy loop, which shortens `len` on every step. It adds
  nothing the invariants of run `parse` do not already show, so it is not
  part of the project.
- The kernel lines inside the map's multi-function ranges. `CallLog`,
  `CallTrig` and `FloatConv`'s `BinaryFloat` each stand for
  several one-line wrappers; their ranges run from the first function to
  the last, and the one `fixpt_*` line of each function in between is not
  translated. The single-function wrappers are mapped to their hosted
  branch only.
