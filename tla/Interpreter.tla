---------------------------- MODULE Interpreter ----------------------------
(***************************************************************************)
(* The interpreter of one message (vm/src/evm/interpreter.ts, stack.ts,    *)
(* memory.ts, opcodes/functions.ts and util.ts): the loop over the code,   *)
(* the stacks, the jumps, the memory and what it costs, the gas a call may *)
(* take along, and the arithmetic instructions on words.                   *)
(*                                                                         *)
(* An opcode's byte is its place in Ops, and one PUSH and one DUP or SWAP  *)
(* stand for the 32 and 16 of their kind.  Words have WordBytes bytes of   *)
(* ByteBits bits.  Of a call only gas, value and output are kept.          *)
(***************************************************************************)
EXTENDS Integers, Sequences, Bitwise

CONSTANTS ByteBits, WordBytes,
          Programs,       \* the codes that are run
          GasLimit,       \* of the message
          MaxHeight,      \* of the stack: 1024
          CallGasDivisor, \* maxCallGas keeps one part of this many: 64
          CallValueTransfer, CallStipend,
          Memory, QuadCoeffDiv

VARIABLES code, pc, stack, returnStack, status, gas,
          memory, memoryWordCount, highestMemCost,
          args           \* operands of the arithmetic instructions

vars == <<code, pc, stack, returnStack, status, gas, memory, memoryWordCount, highestMemCost, args>>
memVars == <<memory, memoryWordCount, highestMemCost>>

Ops == <<"STOP", "PUSH", "JUMPDEST", "JUMP", "JUMPI", "MSTORE", "MLOAD", "DUP", "SWAP",
         "CALL", "BEGINSUB", "JUMPSUB", "RETURNSUB", "ADD">>
CodeOf(op) == (CHOOSE i \in DOMAIN Ops : Ops[i] = op) - 1
OpAt(i) == Ops[code[i + 1] + 1]

-----------------------------------------------------------------------------
\* Words.

TwoPow == 2 ^ (ByteBits * WordBytes)
Words == 0 .. TwoPow - 1
MaxInteger == TwoPow - 1
Bits == ByteBits * WordBytes
Notn(x) == MaxInteger - x
Testn(x, n) == (x \div 2 ^ n) % 2 = 1
FromTwos(x) == IF Testn(x, Bits - 1) THEN -(Notn(x) + 1) ELSE x
ToTwos(x) == IF x < 0 THEN Notn(-x) + 1 ELSE x
Abs(x) == IF x < 0 THEN -x ELSE x
Bool(b) == IF b THEN 1 ELSE 0

\* BN.div and BN.mod truncate.
TDiv(a, b) == IF (a < 0) = (b < 0) THEN Abs(a) \div Abs(b) ELSE -(Abs(a) \div Abs(b))

Arithmetic(op, a, b, c) ==
  CASE op = "ADD" -> (a + b) % TwoPow
    [] op = "MUL" -> (a * b) % TwoPow
    [] op = "SUB" -> ToTwos(a - b)
    [] op = "DIV" -> IF b = 0 THEN 0 ELSE a \div b
    [] op = "SDIV" -> IF b = 0 THEN 0 ELSE ToTwos(TDiv(FromTwos(a), FromTwos(b)))
    [] op = "MOD" -> IF b = 0 THEN 0 ELSE a % b
    [] op = "SMOD" -> IF b = 0 THEN 0
                      ELSE LET r == Abs(FromTwos(a)) % Abs(FromTwos(b))
                           IN  ToTwos(IF FromTwos(a) < 0 THEN -r ELSE r)
    [] op = "ADDMOD" -> IF c = 0 THEN 0 ELSE (a + b) % c
    [] op = "MULMOD" -> IF c = 0 THEN 0 ELSE (a * b) % c

\* EXP: the power of the library halves the exponent.
Exp(base, exponent) ==
  LET pow[e \in Words] ==
        IF e = 0 THEN 1
        ELSE LET h == pow[e \div 2] IN (((h * h) % TwoPow) * (IF e % 2 = 1 THEN base ELSE 1)) % TwoPow
  IN  IF base = 0 /\ exponent # 0 THEN 0 ELSE pow[exponent]

SignExtend(k, val) ==
  LET signBit == k * ByteBits + ByteBits - 1
      mask == 2 ^ signBit - 1
  IN  IF k >= WordBytes - 1 THEN val
      ELSE IF Testn(val, signBit) THEN val | Notn(mask) ELSE val & mask

Compare(op, a, b) ==
  CASE op = "LT" -> Bool(a < b)
    [] op = "GT" -> Bool(a > b)
    [] op = "SLT" -> Bool(FromTwos(a) < FromTwos(b))
    [] op = "SGT" -> Bool(FromTwos(a) > FromTwos(b))
    [] op = "EQ" -> Bool(a = b)
    [] op = "ISZERO" -> Bool(a = 0)

Bitwise2(op, a, b) ==
  CASE op = "AND" -> a & b [] op = "OR" -> a | b [] op = "XOR" -> a ^^ b [] op = "NOT" -> Notn(a)

ByteOf(pos, word) ==
  IF pos >= WordBytes THEN 0 ELSE (word \div 2 ^ ((WordBytes - 1 - pos) * ByteBits)) & (2 ^ ByteBits - 1)

Shl(a, b) == IF a >= Bits THEN 0 ELSE (b * 2 ^ a) & MaxInteger
Shr(a, b) == IF a >= Bits THEN 0 ELSE b \div 2 ^ a

Sar(a, b) ==
  LET signed == Testn(b, Bits - 1)
      shiftedOutWidth == Bits - 1 - a
      mask == (MaxInteger \div 2 ^ shiftedOutWidth) * 2 ^ shiftedOutWidth
  IN  IF a >= Bits THEN (IF signed THEN MaxInteger ELSE 0)
      ELSE IF signed THEN (b \div 2 ^ a) | mask ELSE b \div 2 ^ a

-----------------------------------------------------------------------------
\* Jumps.

\* The mutant of ValidDests: the data of a PUSH is read as opcodes.
ValidDests_InsidePush(op) == {i \in 0 .. Len(code) - 1 : OpAt(i) = op}

\* _getValidJumpDests: the opcodes met when the data of every PUSH is stepped over.
ValidDests(op) ==
  LET met[i \in 0 .. Len(code) + 1] ==
        IF i >= Len(code) THEN {} ELSE {i} \cup met[i + (IF OpAt(i) = "PUSH" THEN 2 ELSE 1)]
  IN  {i \in met[0] : OpAt(i) = op}

-----------------------------------------------------------------------------
\* Memory.

DivCeil(a, b) == a \div b + Bool(a % b # 0)
MemCost(words) == words * Memory + (words * words) \div QuadCoeffDiv
WordsFor(offset, length) == DivCeil(offset + length, WordBytes)

\* subMemUsage: <<words, cost, fee>> after the area is paid for.
SubMemUsage(mem, offset, length) ==
  LET words == WordsFor(offset, length)
      cost == MemCost(words)
  IN  IF length = 0 \/ words <= mem.words THEN mem
      ELSE [words |-> words, cost |-> IF cost > mem.cost THEN cost ELSE mem.cost,
            fee |-> mem.fee + (IF cost > mem.cost THEN cost - mem.cost ELSE 0)]
Unpaid == [words |-> memoryWordCount, cost |-> highestMemCost, fee |-> 0]

Extend(store, offset, size) ==
  LET newSize == DivCeil(offset + size, WordBytes) * WordBytes
  IN  IF size = 0 \/ newSize <= Len(store) THEN store
      ELSE [i \in 1 .. newSize |-> IF i <= Len(store) THEN store[i] ELSE 0]
Write(store, offset, value) ==
  [i \in DOMAIN store |-> IF i - offset \in DOMAIN value THEN value[i - offset] ELSE store[i]]
Read(store, offset, size) ==
  [i \in 1 .. size |-> IF offset + i <= Len(store) THEN store[offset + i] ELSE 0]

BytesOf(word) == [i \in 1 .. WordBytes |-> ByteOf(i - 1, word)]
WordOf(bytes) ==
  LET w[i \in 0 .. Len(bytes)] == IF i = 0 THEN 0 ELSE w[i - 1] * 2 ^ ByteBits + bytes[i]
  IN  w[Len(bytes)]

-----------------------------------------------------------------------------
\* The loop.

Init ==
  /\ \/ code \in Programs /\ args = <<0, 0, 0>>
     \/ code = <<>> /\ args \in Words \X Words \X Words
  /\ pc = 0 /\ stack = <<>> /\ returnStack = <<>> /\ status = "running" /\ gas = GasLimit
  /\ memory = <<>> /\ memoryWordCount = 0 /\ highestMemCost = 0

Arg(i) == stack[Len(stack) + 1 - i]
PopN(n) == SubSeq(stack, 1, Len(stack) - n)
BaseFee == 1

\* VmError: the message ends; only out of gas is told apart when gas was thought safe.
Trap(s) == status' = s /\ UNCHANGED <<code, pc, stack, returnStack, gas, memVars, args>>

\* runStep of an opcode that takes n words: the base fee and `fee' are paid, the rest
\* of the effect is `effect'.
Run(op, n, fee, allowed, effect) ==
  /\ status = "running" /\ pc < Len(code) /\ OpAt(pc) = op
  /\ UNCHANGED <<code, args>>
  /\ IF gas < BaseFee \/ Len(stack) < n \/ gas < BaseFee + fee \/ ~allowed THEN Trap("failed")
     ELSE gas' = gas - BaseFee - fee /\ effect

Stop == Run("STOP", 0, 0, TRUE, status' = "stopped" /\ UNCHANGED <<pc, stack, returnStack, memVars>>)

Goto(dest, kept) == pc' = dest /\ stack' = kept /\ UNCHANGED <<returnStack, status, memVars>>

Push ==
  Run("PUSH", 0, 0, Len(stack) < MaxHeight,
      Goto(pc + 2, Append(stack, IF pc + 1 < Len(code) THEN code[pc + 2] ELSE 0)))
JumpDest == Run("JUMPDEST", 0, 0, TRUE, Goto(pc + 1, stack))
Dup == Run("DUP", 1, 0, Len(stack) < MaxHeight, Goto(pc + 1, Append(stack, Arg(1))))
Swap == Run("SWAP", 2, 0, TRUE, Goto(pc + 1, PopN(2) \o <<Arg(1), Arg(2)>>))
Add == Run("ADD", 2, 0, TRUE, Goto(pc + 1, Append(PopN(2), Arithmetic("ADD", Arg(1), Arg(2), 0))))

Jump == Run("JUMP", 1, 0, Arg(1) \in ValidDests("JUMPDEST"), Goto(Arg(1), PopN(1)))
JumpI ==
  Run("JUMPI", 2, 0, Arg(2) = 0 \/ Arg(1) \in ValidDests("JUMPDEST"),
      Goto(IF Arg(2) = 0 THEN pc + 1 ELSE Arg(1), PopN(2)))

BeginSub == Run("BEGINSUB", 0, 0, FALSE, FALSE)
JumpSub ==
  Run("JUMPSUB", 1, 0, Arg(1) \in ValidDests("BEGINSUB") /\ Len(returnStack) < MaxHeight - 1,
      /\ returnStack' = Append(returnStack, pc + 1)
      /\ pc' = Arg(1) + 1 /\ stack' = PopN(1) /\ UNCHANGED <<status, memVars>>)
ReturnSub ==
  Run("RETURNSUB", 0, 0, returnStack # <<>>,
      /\ pc' = returnStack[Len(returnStack)]
      /\ returnStack' = SubSeq(returnStack, 1, Len(returnStack) - 1)
      /\ UNCHANGED <<stack, status, memVars>>)

MStore ==
  LET mem == SubMemUsage(Unpaid, Arg(1), WordBytes)
  IN  Run("MSTORE", 2, mem.fee, TRUE,
          /\ memory' = Write(Extend(memory, Arg(1), WordBytes), Arg(1), BytesOf(Arg(2)))
          /\ memoryWordCount' = mem.words /\ highestMemCost' = mem.cost
          /\ pc' = pc + 1 /\ stack' = PopN(2) /\ UNCHANGED <<returnStack, status>>)
MLoad ==
  LET mem == SubMemUsage(Unpaid, Arg(1), WordBytes)
  IN  Run("MLOAD", 1, mem.fee, TRUE,
          /\ memoryWordCount' = mem.words /\ highestMemCost' = mem.cost
          /\ pc' = pc + 1 /\ stack' = Append(PopN(1), WordOf(Read(memory, Arg(1), WordBytes)))
          /\ UNCHANGED <<memory, returnStack, status>>)

\* maxCallGas: all but one part of what is left.
MaxCallGas(requested, left) ==
  LET allowed == left - left \div CallGasDivisor IN IF requested > allowed THEN allowed ELSE requested

CalleeGas(requested, value, left) ==
  LET stipend == IF value # 0 THEN CallStipend ELSE 0
  IN  [limit |-> MaxCallGas(requested, left) + stipend, left |-> left + stipend]

\* writeCallOutput: what was returned, up to the length that was asked for.
Output(returned, outLength) == IF returned < outLength THEN returned ELSE outLength

\* A call that uses `used' of its gas and returns `returned' bytes.
Call ==
  LET mem == SubMemUsage(Unpaid, Arg(3), Arg(4))
      fee == mem.fee + (IF Arg(2) # 0 THEN CallValueTransfer ELSE 0)
      g == CalleeGas(Arg(1), Arg(2), gas - BaseFee - fee)
  IN  /\ status = "running" /\ pc < Len(code) /\ OpAt(pc) = "CALL"
      /\ UNCHANGED <<code, args>>
      /\ IF Len(stack) < 4 \/ gas < BaseFee \/ gas < BaseFee + fee THEN Trap("failed")
         ELSE \E used \in {0, g.limit}, returned \in 0 .. WordBytes + 1 :
                IF used > g.left THEN Trap("overspent")
                ELSE LET length == Output(returned, Arg(4))
                     IN  /\ gas' = g.left - used
                         /\ memory' = Write(Extend(memory, Arg(3), length), Arg(3), [i \in 1 .. length |-> 1])
                         /\ memoryWordCount' = mem.words /\ highestMemCost' = mem.cost
                         /\ pc' = pc + 1 /\ stack' = Append(PopN(4), Bool(used = 0))
                         /\ UNCHANGED <<returnStack, status>>

Next ==
  \/ Stop \/ Push \/ JumpDest \/ Dup \/ Swap \/ Add \/ Jump \/ JumpI
  \/ BeginSub \/ JumpSub \/ ReturnSub \/ MStore \/ MLoad \/ Call

Spec == Init /\ [][Next]_vars

-----------------------------------------------------------------------------
\* The places where an opcode starts: the first, and behind an opcode and its data.
Starts ==
  LET starts[i \in 0 .. Len(code)] ==
        \/ i = 0
        \/ i > 0 /\ starts[i - 1] /\ OpAt(i - 1) # "PUSH"
        \/ i > 1 /\ starts[i - 2] /\ OpAt(i - 2) = "PUSH"
  IN  {i \in 0 .. Len(code) : starts[i]}

\* Wherever jumps, subroutines and returns lead, the code is never read from the middle of
\* a PUSH: the scan of _getValidJumpDests agrees with the way the loop steps.
JumpsLandOnOpcodes == pc < Len(code) => pc \in Starts

\* Every byte of memory was paid for, at the price of its size, however it grew: the store
\* never passes memoryWordCount, which is what subMemUsage has charged.
MemoryIsPaidFor ==
  Len(memory) <= memoryWordCount * WordBytes /\ highestMemCost = MemCost(memoryWordCount)

\* eei._baseCall: "this should always be safe": what a callee used is covered by the gas its
\* caller has left, the stipend and the part held back included.
CalleeGasIsCovered == status # "overspent"

\* The instructions on words compute what they stand for on integers: modular, signed and
\* shifted values at every boundary.
Signed(x) == IF x >= TwoPow \div 2 THEN x - TwoPow ELSE x
Unsigned(x) == x % TwoPow
Quotient(a, b) == LET q == CHOOSE q \in 0 .. TwoPow : q * Abs(b) <= Abs(a) /\ Abs(a) < (q + 1) * Abs(b)
                  IN  IF (a < 0) = (b < 0) THEN q ELSE -q
Power(b, e) == LET p[i \in Nat] == IF i = 0 THEN 1 ELSE (b * p[i - 1]) % TwoPow IN p[e]
ArithmeticIsRight ==
  LET a == args[1] b == args[2] c == args[3]
  IN  code = <<>> =>
        /\ Arithmetic("ADD", a, b, c) = Unsigned(a + b) /\ Arithmetic("MUL", a, b, c) = Unsigned(a * b)
        /\ Arithmetic("SUB", a, b, c) = Unsigned(a - b) /\ Exp(a, b) = Power(a, b)
        /\ b # 0 => /\ Arithmetic("DIV", a, b, c) = Quotient(a, b) /\ Arithmetic("MOD", a, b, c) = a - b * Quotient(a, b)
                    /\ Arithmetic("SDIV", a, b, c) = Unsigned(Quotient(Signed(a), Signed(b)))
                    /\ Arithmetic("SMOD", a, b, c) = Unsigned(Signed(a) - Signed(b) * Quotient(Signed(a), Signed(b)))
        /\ c # 0 => \E q \in 0 .. TwoPow * TwoPow : a + b = q * c + Arithmetic("ADDMOD", a, b, c)
        /\ c # 0 => \E q \in 0 .. TwoPow * TwoPow : a * b = q * c + Arithmetic("MULMOD", a, b, c)
        /\ (Compare("SLT", a, b) = 1) = (Signed(a) < Signed(b)) /\ (Compare("SGT", a, b) = 1) = (Signed(a) > Signed(b))
        /\ (Compare("LT", a, b) + Compare("GT", a, b) + Compare("EQ", a, b)) = 1 /\ Compare("ISZERO", a, b) = 1 - Bool(a # 0)
        /\ Bitwise2("AND", a, b) + Bitwise2("OR", a, b) = a + b
        /\ Bitwise2("XOR", a, b) = Bitwise2("OR", a, b) - Bitwise2("AND", a, b) /\ Bitwise2("NOT", a, b) = Unsigned(-a - 1)
        /\ WordOf(BytesOf(a)) = a /\ ByteOf(WordBytes + b, a) = 0
        /\ a < Bits => /\ Shl(a, b) = Unsigned(b * 2 ^ a) /\ Shr(a, b) = b \div 2 ^ a
                       /\ Sar(a, b) = Unsigned(Signed(b) \div 2 ^ a)
        /\ a >= Bits => Shl(a, b) = 0 /\ Shr(a, b) = 0 /\ Sar(a, b) = Unsigned(IF Signed(b) < 0 THEN -1 ELSE 0)
        /\ SignExtend(a, b) =
             IF a >= WordBytes THEN b
             ELSE LET low == b % 2 ^ ((a + 1) * ByteBits)
                  IN  Unsigned(IF low >= 2 ^ ((a + 1) * ByteBits - 1) THEN low - 2 ^ ((a + 1) * ByteBits) ELSE low)
=============================================================================
