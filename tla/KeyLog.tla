------------------------------- MODULE KeyLog -------------------------------
(***************************************************************************)
(* A mined key from the funnel to its recovery: nullforge-keygen writes    *)
(* the recipient, a miner run reads its arguments, resolves its key sink   *)
(* once and appends lines to scanned_keys.txt, nullforge-decrypt reads     *)
(* them back.  writeln! on an unbuffered File is one write per piece, so a *)
(* line ends early when the process does; the next run appends to what is  *)
(* there.                                                                  *)
(*                                                                         *)
(* Faults: "crash" (the process ends in a line: exit(1) of the GPU driver, *)
(* a kill, a power cut), "write" (a write fails, which report_hit          *)
(* ignores), "encode" (encode_key_field fails), "keygen" (nullforge-keygen *)
(* dies before it has printed the secret).                                 *)
(***************************************************************************)
EXTENDS Naturals, Sequences, FiniteSets, SequencesExt, CommandLine, Notation

CONSTANTS
  Identity,   \* age identities; each also names its public recipient
  None,       \* no recipient, no run
  Plaintext,  \* the sink of --reveal
  Malformed,  \* a NULLFORGE_AGE_RECIPIENT that does not parse
  Environment,\* values of NULLFORGE_AGE_RECIPIENT, None when unset
  Faults,
  Arguments,  \* command lines of the miners
  AddressOf,  \* AddressOf[k]: nibbles of the address of the k-th key found
  Addresses,  \* more addresses to write and read back
  MaxKeys,    \* bound: keys found
  MaxTorn     \* bound: lines cut short

ASSUME KeyLogAssumption ==
  /\ IsFiniteSet(Identity)
  /\ {None, Plaintext, Malformed} \cap Identity = {}
  /\ Cardinality({None, Plaintext, Malformed}) = 3
  /\ Environment \subseteq Identity \cup {None, Malformed}
  /\ \A args \in Arguments : args \in Seq(Range(args))
  /\ Addresses \subseteq Seq(0 .. 15) /\ AddressOf \in Seq(Addresses)
  /\ \A a \in Addresses : Len(a) <= 40 /\ Len(a) % 2 = 0
  /\ MaxKeys \in 0 .. Len(AddressOf) /\ MaxTorn \in Nat

(* The pieces of a line, one per write.                                    *)
Tab == <<"tab">>
Newline == <<"newline">>
Fragment == <<"fragment">>
HalfCharacter == <<"half a character">>
Texts == [k \in DOMAIN AddressOf |-> format_address(AddressOf[k], "Subscript", FALSE)]
Counts == [k \in DOMAIN AddressOf |-> leading_zero_nibbles(AddressOf[k])]
Address(k) == <<"address", Texts[k]>>
ZeroCount(k) == <<"zeros", Counts[k]>>
Field(k, to) == <<"field", k, to>>

(* A subscript takes three bytes; everything else in a line is ASCII.      *)
HasSubscripts(piece) ==
  \E k \in DOMAIN Texts :
    /\ piece = Address(k)
    /\ \E i \in DOMAIN Texts[k] : Texts[k][i][1] = "subscript"

VARIABLES
  recipient_file, \* the age1 line of age-recipient.txt, None without one
  keygen,         \* "idle", or "truncated" or "written" the recipient file
  generated,      \* identities keygen has generated; the last one is current
  kept,           \* identities whose secret was printed, or brought in by env
  sink,           \* key_sink of the running miner, None when none runs
  line,           \* pieces of the current line still to write
  file,           \* scanned_keys.txt: lines of columns of pieces
  found,          \* keys found so far; the last one is the current line's
  torn,           \* history: lines cut short
  completed,      \* history: keys whose line was written, and its sink
  revealed,       \* history: keys of runs in plaintext with --reveal among
                  \* the arguments, the current run's to come included
  died            \* history: identities keygen died with before it printed

keys == <<recipient_file, keygen, generated, kept>>
history == <<torn, completed, revealed, died>>
vars == <<keys, sink, line, file, found, history>>

Init ==
  /\ recipient_file = None
  /\ keygen = "idle"
  /\ generated = <<>>
  /\ kept = Environment \cap Identity
  /\ sink = None
  /\ line = <<>>
  /\ file = << << <<>> >> >>
  /\ found = 0
  /\ torn = 0 /\ completed = {} /\ revealed = {}
  /\ died = {}

----------------------------------------------------------------------------
(* nullforge-keygen                                                        *)

(* fs::write truncates before it writes.                                   *)
KeygenTruncates ==
  /\ keygen = "idle"
  /\ \E i \in Identity \ (Environment \cup Range(generated)) :
       generated' = Append(generated, i)
  /\ recipient_file' = None
  /\ keygen' = "truncated"
  /\ UNCHANGED <<kept, died>>

KeygenWrites ==
  /\ keygen = "truncated"
  /\ recipient_file' = Last(generated)
  /\ keygen' = "written"
  /\ UNCHANGED <<generated, kept, died>>

PrintsFirst == {generated[1]}
PrintsSecret == {Last(generated)}

KeygenPrints ==
  /\ keygen = "written"
  /\ kept' = kept \cup PrintsSecret
  /\ keygen' = "idle"
  /\ UNCHANGED <<recipient_file, generated, died>>

KeygenDies ==
  /\ "keygen" \in Faults
  /\ keygen # "idle"
  /\ keygen' = "idle"
  /\ died' = died \cup {Last(generated)}
  /\ UNCHANGED <<recipient_file, generated, kept>>

Keygen ==
  /\ KeygenTruncates \/ KeygenWrites \/ KeygenPrints \/ KeygenDies
  /\ UNCHANGED <<sink, line, file, found, torn, completed, revealed>>

----------------------------------------------------------------------------
(* A miner run                                                             *)

FailOpen(reveal, env) ==
  IF reveal THEN Plaintext
  ELSE IF env \in Identity THEN env
  ELSE IF recipient_file # None THEN recipient_file ELSE Plaintext

(* None is the error with which main exits before it mines.                *)
resolve_sink(reveal, env) ==
  IF reveal THEN Plaintext
  ELSE IF env \in Identity THEN env
  ELSE IF env = Malformed THEN None
  ELSE recipient_file

(* What matters here of the starts of either miner that mine for keys.     *)
Starts ==
  UNION {{[reveal |-> run.reveal, typed |-> "--reveal" \in Range(args)] :
            run \in {r \in {gpu_main(args), cpu_main(args)} : r.mode = "keys"}} :
         args \in Arguments}

Start ==
  /\ sink = None
  /\ \E start \in Starts, env \in Environment :
       /\ sink' = resolve_sink(start.reveal, env)
       /\ revealed' = IF start.typed /\ sink' = Plaintext
                        THEN revealed \cup (found + 1 .. MaxKeys)
                        ELSE revealed \ (found + 1 .. MaxKeys)
  /\ UNCHANGED <<keys, line, file, found, torn, completed, died>>

Untabbed(k) ==
  << <<"total", k>>, Address(k), ZeroCount(k), Field(k, sink), Newline >>

Line(k) ==
  << <<"total", k>>, Tab, Address(k), Tab, ZeroCount(k), Tab,
     Field(k, sink), Newline >>

(* A new best: its line is begun, or skipped when the key is not encoded.  *)
FindKey ==
  /\ sink # None /\ line = <<>>
  /\ found < MaxKeys
  /\ found' = found + 1
  /\ \/ line' = Line(found + 1)
     \/ "encode" \in Faults /\ line' = <<>>
  /\ UNCHANGED <<keys, sink, file, history>>

(* The file with one more piece at its end.                                *)
Put(piece) ==
  LET last == Last(file) IN
  CASE piece = Newline -> Append(file, << <<>> >>)
    [] piece = Tab -> [file EXCEPT ![Len(file)] = Append(last, <<>>)]
    [] OTHER -> [file EXCEPT ![Len(file)][Len(last)] = Append(@, piece)]

WritePiece ==
  /\ line # <<>>
  /\ file' = Put(Head(line))
  /\ line' = Tail(line)
  /\ completed' = IF Head(line) = Newline
                    THEN completed \cup {[key |-> found, sink |-> sink]}
                    ELSE completed
  /\ UNCHANGED <<keys, sink, found, torn, revealed, died>>

(* The rest of the line is not written, a part of its next piece perhaps,  *)
(* which may end inside a character.                                       *)
CutShort ==
  /\ line # <<>>
  /\ torn < MaxTorn
  /\ torn' = torn + 1
  /\ line' = <<>>
  /\ \/ UNCHANGED file
     \/ Head(line) \notin {Tab, Newline} /\ file' = Put(Fragment)
     \/ HasSubscripts(Head(line)) /\ file' = Put(HalfCharacter)

WriteFails ==
  /\ "write" \in Faults
  /\ CutShort
  /\ UNCHANGED <<keys, sink, found, completed, revealed, died>>

Crash ==
  /\ "crash" \in Faults
  /\ CutShort
  /\ sink' = None
  /\ UNCHANGED <<keys, found, completed, revealed, died>>

(* The run ends between two lines, with a summary or not.                  *)
Stop ==
  /\ sink # None /\ line = <<>>
  /\ sink' = None
  /\ UNCHANGED <<keys, line, file, found, history>>

Miner == Start \/ FindKey \/ WritePiece \/ WriteFails \/ Crash \/ Stop

Next == Keygen \/ Miner

Spec == Init /\ [][Next]_vars

----------------------------------------------------------------------------
(* nullforge-decrypt                                                       *)

HasColumns(cols) == Len(cols) >= 4

AnyColumnDecrypts(field, cols) == HasColumns(cols) /\ <<field>> \in Range(cols)

(* The fourth column decrypts with i only when it is a whole ciphertext    *)
(* for i and nothing else: base64 and age both reject anything more.       *)
Decrypts(field, cols) == HasColumns(cols) /\ cols[4] = <<field>>

(* read_to_string fails for a file that is not valid UTF-8.                *)
IsUtf8 ==
  \A i \in DOMAIN file : \A c \in DOMAIN file[i] :
    HalfCharacter \notin Range(file[i][c])

(* What the lines hold for identity i: two columns, and the key.           *)
InLines(i) ==
  UNION {{[address |-> cols[2], zeros |-> cols[3], key |-> k] :
            k \in {j \in 1 .. found : Decrypts(Field(j, i), cols)}} :
         cols \in {c \in Range(file) : HasColumns(c)}}

(* What decrypt prints with identity i.                                    *)
Recovered(i) == IF IsUtf8 THEN InLines(i) ELSE {}

Recoverable(c) ==
  \E r \in Recovered(c.sink) : r.key = c.key /\ r.address = <<Address(c.key)>>

----------------------------------------------------------------------------
(* decrypt never prints a key under the address of another, or with its    *)
(* count of zeros, whatever lines were cut short and run into the next.    *)
NoFalseRecovery ==
  \A i \in Identity : \A r \in Recovered(i) :
    r.address = <<Address(r.key)>> /\ r.zeros = <<ZeroCount(r.key)>>

(* The address a text stands for: behind the first character one or two    *)
(* subscripts say how many zeros there are before the remainder.           *)
Expanded(text) ==
  LET value(c) == IF c[1] = "hex" THEN c[2] ELSE 0
      subscripts == {i \in DOMAIN text : text[i][1] = "subscript"}
      number == IF 3 \in subscripts THEN 10 * text[2][2] + text[3][2] ELSE text[2][2]
      remainder == SubSeq(text, IF 3 \in subscripts THEN 4 ELSE 3, Len(text))
  IN  IF subscripts = {} THEN [i \in DOMAIN text |-> value(text[i])]
      ELSE [i \in 1 .. number |-> 0] \o
             [i \in DOMAIN remainder |-> value(remainder[i])]

Lossless ==
  \A a \in Addresses :
    /\ Expanded(format_address(a, "Subscript", FALSE)) = a
    /\ count_leading_zeros(a) = leading_zero_nibbles(a)

(* The address column is lossless and reversible (main.rs:211-214), at the *)
(* threshold, with counts of two digits and for zeros alone: who decrypts  *)
(* a line can rebuild the whole address of its key.  And the zeros column, *)
(* counted on bytes, is the count on characters that the text shows        *)
(* (erc8117.rs:47-50).                                                     *)
ColumnsNameTheKey ==
  /\ Lossless
  /\ \A i \in Identity : \A r \in Recovered(i) :
       LET a == Expanded(Head(r.address)[2])
       IN  a = AddressOf[r.key] /\ Head(r.zeros)[2] = count_leading_zeros(a)

(* A line cut short spoils at most one complete line, the one after it, as *)
(* long as decrypt can read the file: a line that is cut inside a          *)
(* subscript keeps it from all of them.                                    *)
LossBounded ==
  IF IsUtf8
    THEN Cardinality({c \in completed :
                        c.sink \in Identity /\ ~Recoverable(c)}) <= torn
    ELSE torn > 0

(* A key is in the file in plaintext only if its run asked for --reveal:   *)
(* a missing, empty or malformed recipient never falls back to it.         *)
FailClosed ==
  \A i \in DOMAIN file : \A c \in DOMAIN file[i] : \A p \in Range(file[i][c]) :
    (p[1] = "field" /\ p[3] = Plaintext) => p[2] \in revealed

(* Every recipient a line was written for has its secret in somebody's     *)
(* hands, across restarts and changes of the recipient, unless the keygen  *)
(* of that very recipient is on its way or died before it printed.         *)
SecretsKept ==
  \A c \in completed : c.sink \in Identity =>
    \/ c.sink \in kept \cup died
    \/ keygen # "idle" /\ c.sink = Last(generated)

=============================================================================
