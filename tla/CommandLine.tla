---------------------------- MODULE CommandLine ----------------------------
(***************************************************************************)
(* What the two miners make of their arguments: the loop at the head of    *)
(* src/src/bin/gpu.rs with the checks of each mode, the scan of            *)
(* src/src/main.rs, and validate_target of src/src/target.rs.  Arguments   *)
(* are names; what a name reads as, a number or bytes in hex, is given.    *)
(***************************************************************************)
EXTENDS Naturals, Sequences, FiniteSetsExt, Functions

CONSTANTS
  UnknownFlag,    \* other arguments that start with "--"
  Number,         \* Number[a]: the arguments that parse as a usize
  Bytes,          \* Bytes[a]: bytes of the arguments that are hex
  Long            \* the arguments longer than 32 bytes

Switch == {"--reveal", "--create2", "--create3", "--createx", "--create2-tagged"}
ValueFlag == {"--deployer", "--init-code-hash", "--factory",
              "--proxy-init-code-hash", "--proxy-hash", "--prefix", "--owner",
              "--permissions"}
Flag == Switch \cup ValueFlag \cup UnknownFlag

ASSUME CommandLineAssumption ==
  /\ UnknownFlag \cap (Switch \cup ValueFlag) = {}
  /\ (DOMAIN Number \cup DOMAIN Bytes) \cap Flag = {}
  /\ Range(Number) \cup Range(Bytes) \subseteq Nat

MAX_LEADING_ZERO_NIBBLES == 40

AtMostMax(k) == k <= MAX_LEADING_ZERO_NIBBLES
validate_target(k) == 1 <= k /\ k <= MAX_LEADING_ZERO_NIBBLES

(* A start that ends with status 2, and one that mines.                    *)
Usage == [mode |-> "usage", target |-> 0, reveal |-> FALSE]

Mining(mode, positional, reveal) ==
  LET target == IF positional = <<>> THEN 8 ELSE Number[positional[1]]
  IN  IF /\ positional = <<>> \/ positional[1] \in DOMAIN Number
         /\ validate_target(target)
        THEN [mode |-> mode, target |-> target, reveal |-> reveal]
        ELSE Usage

(* nullforge: any flag is skipped, a value flag's value is not.            *)
cpu_main(args) ==
  Mining("keys", SelectSeq(args, LAMBDA a : a \notin Flag),
         "--reveal" \in Range(args))

----------------------------------------------------------------------------
(* nullforge-gpu: the argument after a value flag is its value, even when  *)
(* it looks like a flag.                                                   *)

Swallowed(args) ==
  LET is[i \in DOMAIN args] ==
        i > 1 /\ args[i - 1] \in ValueFlag /\ ~is[i - 1]
  IN  {i \in DOMAIN args : is[i]}

(* The arguments the loop looks at, in order.                              *)
Read(args) ==
  LET looked == DOMAIN args \ Swallowed(args)
      upTo[i \in 0 .. Len(args)] ==
        IF i = 0 THEN <<>>
        ELSE upTo[i - 1] \o IF i \in looked THEN <<args[i]>> ELSE <<>>
  IN  upTo[Len(args)]

(* The value of the last of the flags given, none when it ends the line.   *)
ValueOf(args, flags) ==
  LET at == {i \in DOMAIN args \ Swallowed(args) : args[i] \in flags}
  IN  IF at = {} \/ Max(at) = Len(args) THEN <<>> ELSE <<args[Max(at) + 1]>>

parse_hex_arg(args, flags, want_bytes) ==
  \E a \in DOMAIN Bytes : ValueOf(args, flags) = <<a>> /\ Bytes[a] = want_bytes

(* The first of the modes asked for runs, when its arguments are there.    *)
Mode(args) ==
  LET asked(flag) == flag \in Range(Read(args))
      hex(flag, k) == parse_hex_arg(args, {flag}, k)
      proxy == {"--proxy-init-code-hash", "--proxy-hash"}
      checked(mode, sound) == IF sound THEN mode ELSE "usage"
  IN  IF asked("--create2") THEN
        checked("create2", hex("--deployer", 20) /\ hex("--init-code-hash", 32))
      ELSE IF asked("--create3") THEN
        checked("create3", /\ hex("--factory", 20)
                           /\ \/ ValueOf(args, proxy) = <<>>
                              \/ parse_hex_arg(args, proxy, 32))
      ELSE IF asked("--createx") THEN "createx"
      ELSE IF asked("--create2-tagged") THEN
        checked("create2tag",
                /\ ValueOf(args, {"--prefix"}) \notin {<<>>} \cup {<<a>> : a \in Long}
                /\ hex("--deployer", 20) /\ hex("--owner", 20)
                /\ hex("--permissions", 20) /\ hex("--factory", 20)
                /\ hex("--init-code-hash", 32))
      ELSE "keys"

gpu_main(args) ==
  IF Range(Read(args)) \cap UnknownFlag # {} \/ Mode(args) = "usage" THEN Usage
  ELSE Mining(Mode(args), SelectSeq(Read(args), LAMBDA a : a \notin Flag),
              "--reveal" \in Range(Read(args)))

=============================================================================
