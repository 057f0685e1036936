----------------------------- MODULE HuffmanCode -----------------------------
(***************************************************************************)
(* The code of RFC 7541 that HPACK strings may be written in: the table of  *)
(* the library, a decoder that takes its input four bits at a time, and the *)
(* definition of an encoded string both are held against.                   *)
(***************************************************************************)
EXTENDS Integers, Sequences, SequencesExt, FiniteSetsExt

\* The length and the value of the code of each octet, and of the end of the string.
SymTable ==
  << <<13,8184>>,<<23,8388568>>,<<28,268435426>>,<<28,268435427>>,<<28,268435428>>,
     <<28,268435429>>,<<28,268435430>>,<<28,268435431>>,<<28,268435432>>,<<24,16777194>>,
     <<30,1073741820>>,<<28,268435433>>,<<28,268435434>>,<<30,1073741821>>,<<28,268435435>>,
     <<28,268435436>>,<<28,268435437>>,<<28,268435438>>,<<28,268435439>>,<<28,268435440>>,
     <<28,268435441>>,<<28,268435442>>,<<30,1073741822>>,<<28,268435443>>,<<28,268435444>>,
     <<28,268435445>>,<<28,268435446>>,<<28,268435447>>,<<28,268435448>>,<<28,268435449>>,
     <<28,268435450>>,<<28,268435451>>,<<6,20>>,<<10,1016>>,<<10,1017>>,<<12,4090>>,<<13,8185>>,
     <<6,21>>,<<8,248>>,<<11,2042>>,<<10,1018>>,<<10,1019>>,<<8,249>>,<<11,2043>>,<<8,250>>,
     <<6,22>>,<<6,23>>,<<6,24>>,<<5,0>>,<<5,1>>,<<5,2>>,<<6,25>>,<<6,26>>,<<6,27>>,<<6,28>>,
     <<6,29>>,<<6,30>>,<<6,31>>,<<7,92>>,<<8,251>>,<<15,32764>>,<<6,32>>,<<12,4091>>,
     <<10,1020>>,<<13,8186>>,<<6,33>>,<<7,93>>,<<7,94>>,<<7,95>>,<<7,96>>,<<7,97>>,<<7,98>>,
     <<7,99>>,<<7,100>>,<<7,101>>,<<7,102>>,<<7,103>>,<<7,104>>,<<7,105>>,<<7,106>>,<<7,107>>,
     <<7,108>>,<<7,109>>,<<7,110>>,<<7,111>>,<<7,112>>,<<7,113>>,<<7,114>>,<<8,252>>,<<7,115>>,
     <<8,253>>,<<13,8187>>,<<19,524272>>,<<13,8188>>,<<14,16380>>,<<6,34>>,<<15,32765>>,<<5,3>>,
     <<6,35>>,<<5,4>>,<<6,36>>,<<5,5>>,<<6,37>>,<<6,38>>,<<6,39>>,<<5,6>>,<<7,116>>,<<7,117>>,
     <<6,40>>,<<6,41>>,<<6,42>>,<<5,7>>,<<6,43>>,<<7,118>>,<<6,44>>,<<5,8>>,<<5,9>>,<<6,45>>,
     <<7,119>>,<<7,120>>,<<7,121>>,<<7,122>>,<<7,123>>,<<15,32766>>,<<11,2044>>,<<14,16381>>,
     <<13,8189>>,<<28,268435452>>,<<20,1048550>>,<<22,4194258>>,<<20,1048551>>,<<20,1048552>>,
     <<22,4194259>>,<<22,4194260>>,<<22,4194261>>,<<23,8388569>>,<<22,4194262>>,<<23,8388570>>,
     <<23,8388571>>,<<23,8388572>>,<<23,8388573>>,<<23,8388574>>,<<24,16777195>>,<<23,8388575>>,
     <<24,16777196>>,<<24,16777197>>,<<22,4194263>>,<<23,8388576>>,<<24,16777198>>,
     <<23,8388577>>,<<23,8388578>>,<<23,8388579>>,<<23,8388580>>,<<21,2097116>>,<<22,4194264>>,
     <<23,8388581>>,<<22,4194265>>,<<23,8388582>>,<<23,8388583>>,<<24,16777199>>,<<22,4194266>>,
     <<21,2097117>>,<<20,1048553>>,<<22,4194267>>,<<22,4194268>>,<<23,8388584>>,<<23,8388585>>,
     <<21,2097118>>,<<23,8388586>>,<<22,4194269>>,<<22,4194270>>,<<24,16777200>>,<<21,2097119>>,
     <<22,4194271>>,<<23,8388587>>,<<23,8388588>>,<<21,2097120>>,<<21,2097121>>,<<22,4194272>>,
     <<21,2097122>>,<<23,8388589>>,<<22,4194273>>,<<23,8388590>>,<<23,8388591>>,<<20,1048554>>,
     <<22,4194274>>,<<22,4194275>>,<<22,4194276>>,<<23,8388592>>,<<22,4194277>>,<<22,4194278>>,
     <<23,8388593>>,<<26,67108832>>,<<26,67108833>>,<<20,1048555>>,<<19,524273>>,<<22,4194279>>,
     <<23,8388594>>,<<22,4194280>>,<<25,33554412>>,<<26,67108834>>,<<26,67108835>>,
     <<26,67108836>>,<<27,134217694>>,<<27,134217695>>,<<26,67108837>>,<<24,16777201>>,
     <<25,33554413>>,<<19,524274>>,<<21,2097123>>,<<26,67108838>>,<<27,134217696>>,
     <<27,134217697>>,<<26,67108839>>,<<27,134217698>>,<<24,16777202>>,<<21,2097124>>,
     <<21,2097125>>,<<26,67108840>>,<<26,67108841>>,<<28,268435453>>,<<27,134217699>>,
     <<27,134217700>>,<<27,134217701>>,<<20,1048556>>,<<24,16777203>>,<<20,1048557>>,
     <<21,2097126>>,<<22,4194281>>,<<21,2097127>>,<<21,2097128>>,<<23,8388595>>,<<22,4194282>>,
     <<22,4194283>>,<<25,33554414>>,<<25,33554415>>,<<24,16777204>>,<<24,16777205>>,
     <<26,67108842>>,<<23,8388596>>,<<26,67108843>>,<<27,134217702>>,<<26,67108844>>,
     <<26,67108845>>,<<27,134217703>>,<<27,134217704>>,<<27,134217705>>,<<27,134217706>>,
     <<27,134217707>>,<<28,268435454>>,<<27,134217708>>,<<27,134217709>>,<<27,134217710>>,
     <<27,134217711>>,<<27,134217712>>,<<26,67108846>>,<<30,1073741823>> >>

Symbols == 0..255
Eos == 256

\* The bits of a number, the most significant first, and back.
BitsOf(n, v) == [i \in 1..n |-> (v \div 2^(n - i)) % 2]
ValueOf(bits) == FoldLeft(LAMBDA v, b : 2 * v + b, 0, bits)
Repeat(bit, n) == [i \in 1..n |-> bit]

CodeBits == [s \in 0..Eos |-> BitsOf(SymTable[s + 1][1], SymTable[s + 1][2])]
Codes == {CodeBits[s] : s \in 0..Eos}
SymbolOf == [code \in Codes |-> CHOOSE s \in 0..Eos : CodeBits[s] = code]

EncodeCount(string) == (FoldLeft(LAMBDA n, s : n + SymTable[s + 1][1], 0, string) + 7) \div 8

\* A string in the code, by definition: the codes of its octets, one after the other, and
\* as many bits of the end of the string as fill the last octet.
Encoded(string) ==
  LET bits   == FlattenSeq([i \in DOMAIN string |-> CodeBits[string[i]]])
      length == EncodeCount(string)
      filled == bits \o SubSeq(CodeBits[Eos], 1, 8 * length - Len(bits))
  IN [i \in 1..length |-> ValueOf(SubSeq(filled, 8 * i - 7, 8 * i))]

-----------------------------------------------------------------------------
(* Decoding.  A state of the decoder is a node of the code's tree: the bits *)
(* since the last symbol.  No code is shorter than five bits, so four bits  *)
(* complete at most one symbol.  The string may end at a node that fewer    *)
(* than eight bits of padding lead to.                                      *)

DecodeInit == [node |-> <<>>, accept |-> TRUE, out |-> <<>>, fail |-> FALSE]

\* Mutant: padding may be longer than an octet.
AcceptedAnyLength(node) == \A i \in DOMAIN node : node[i] = 1
Accepted(node) == Len(node) <= 7 /\ \A i \in DOMAIN node : node[i] = 1

Reached(d, node) ==
  IF d.fail THEN d
  ELSE IF node \notin Codes THEN [d EXCEPT !.node = node]
  ELSE IF SymbolOf[node] = Eos THEN [d EXCEPT !.fail = TRUE]
  ELSE [d EXCEPT !.node = <<>>, !.out = Append(@, SymbolOf[node])]
DecodeBit(d, bit) == Reached(d, Append(d.node, bit))

\* An octet is two rows of the table; whether the string may end is known after the second.
Judged(d) == [d EXCEPT !.accept = Accepted(d.node)]
DecodeOctet(d, octet) == Judged(FoldLeft(DecodeBit, d, BitsOf(8, octet)))

Ended(d, final) == IF final /\ ~d.accept THEN [d EXCEPT !.fail = TRUE] ELSE d

\* Mutant: each piece of a string begins at the root of the tree.
DecodeAfresh(d, octets, final) == Ended(FoldLeft(DecodeOctet, [d EXCEPT !.node = <<>>], octets), final)
Decode(d, octets, final) == Ended(FoldLeft(DecodeOctet, d, octets), final)

=============================================================================
