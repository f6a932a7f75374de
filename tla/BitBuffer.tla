----------------------------- MODULE BitBuffer -----------------------------
(***************************************************************************)
(* bit_buffer, the codec of the messages that are not divided into bytes,  *)
(* and the services that speak it: the authentications and the greeting of *)
(* the lobby server.  Values lie across byte boundaries, as far as the     *)
(* values before them left off, so both the writer and the reader put      *)
(* every byte together from two.  The ticket and its cipher are left out:  *)
(* what an answer carries of the request is the seed.                      *)
(***************************************************************************)
EXTENDS Integers, Sequences, SequencesExt

CONSTANTS
  Uint32,     \* the 32-bit values that are written, as four bytes
  BitBytes,      \* the byte strings that are written
  MaxWrites   \* bound on the values of a message

ASSUME BitBufferAssumption ==
  /\ Uint32 \subseteq [1..4 -> 0..255]
  /\ BitBytes \subseteq Seq(0..255) \ {<<>>}
  /\ MaxWrites \in Nat

VARIABLES
  bits,       \* buffer_, current_bit_ and use_data_types_ of the message
  written,    \* what was written: [kind, types, data]
  returned,   \* what was read of it, in order
  reply       \* [service, seed, data]: an answer to an authentication

bitVars == <<bits, written, returned, reply>>

-----------------------------------------------------------------------------
(* bit_buffer.  A byte is a number, a value a sequence of bytes, the lowest *)
(* first.                                                                   *)

bit_buffer(buffer) ==
  [buffer |-> buffer, current_bit |-> 0, types |-> TRUE, ok |-> TRUE, out |-> <<>>]

Smaller(i, j) == IF i < j THEN i ELSE j

Zeros(n) == [i \in 1..n |-> 0]

\* byte << n, byte >> n, and the lowest n bits of byte, all in a byte
Left(byte, n) == (byte * 2^n) % 256
Right(byte, n) == byte \div 2^n
Lowest(byte, n) == byte % 2^n

\* Data's bits from bit, eight of them, where the data ends zeros.
DataAt(data, count, bit) ==
  LET this_byte == bit \div 8
      this_bit == bit % 8
      next_byte == IF (count - 1) \div 8 > this_byte THEN data[this_byte + 2] ELSE 0
  IN Left(next_byte, 8 - this_bit) + Right(data[this_byte + 1], this_bit)

\* One turn of the loop of write: what is left of a byte of the buffer is filled,
\* from bit on.
write_turn(w, data, count) ==
  LET bit_pos == w.buffer.current_bit % 8
      this_write == Smaller(count - w.bit, 8 - bit_pos)
      byte_pos == w.buffer.current_bit \div 8 + 1
      byte == w.buffer.buffer[byte_pos]
      out_byte == Lowest(byte, bit_pos)
                  + Lowest(DataAt(data, count, w.bit), this_write) * 2^bit_pos
                  + Right(byte, bit_pos + this_write) * 2^(bit_pos + this_write)
  IN IF w.bit = count THEN w
     ELSE [buffer |-> [w.buffer EXCEPT !.buffer[byte_pos] = out_byte,
                                       !.current_bit = @ + this_write],
           bit |-> w.bit + this_write]

\* The first turn fills a byte, each other one writes eight bits or the rest.
write_loop(b, data, count) ==
  FoldLeft(LAMBDA w, turn : write_turn(w, data, count), [buffer |-> b, bit |-> 0],
           Zeros(count \div 8 + 2)).buffer

write_bits(b, count, data) ==
  IF count = 0 THEN b
  ELSE write_loop([b EXCEPT !.buffer = @ \o Zeros(count \div 8 + 1)], data, count)

\* The loop of read: the output's bytes, the last one of fewer than eight bits.
read_bits(b, count) ==
  LET first == b.current_bit \div 8
      remain == b.current_bit % 8
      Byte(i) ==
        LET min_bit == Smaller(count - 8 * (i - 1), 8)
            this_byte == b.buffer[first + i]
        IN IF min_bit + remain <= 8
           THEN Lowest(Right(this_byte, remain), min_bit)
           ELSE Lowest(Left(b.buffer[first + i + 1], 8 - remain)
                       + Right(this_byte, remain), min_bit)
  IN IF count = 0 \/ b.current_bit + count > Len(b.buffer) * 8
     THEN [b EXCEPT !.ok = FALSE]
     ELSE [b EXCEPT !.ok = TRUE, !.current_bit = @ + count,
                    !.out = [i \in 1..(count + 7) \div 8 |-> Byte(i)]]

TypeOf == [bool |-> 1, uint32 |-> 8]

write_data_type_bits(b, type) == IF b.types THEN write_bits(b, 5, <<type>>) ELSE b

write_bool(b, data) == write_bits(write_data_type_bits(b, TypeOf.bool), 1, data)
write_uint32(b, data) == write_bits(write_data_type_bits(b, TypeOf.uint32), 32, data)
write_bytes(b, data) == write_bits(b, 8 * Len(data), data)

\* A type that is not the expected one is an answer of FALSE, and nothing is read.
read_data_type_bits(b, type) ==
  IF b.types
  THEN LET o == read_bits(b, 5) IN [o EXCEPT !.ok = o.ok /\ o.out = <<type>>]
  ELSE [b EXCEPT !.ok = TRUE]

read_bool(b) ==
  LET type == read_data_type_bits(b, TypeOf.bool)
  IN IF type.ok THEN read_bits(type, 1) ELSE type
read_uint32(b) ==
  LET type == read_data_type_bits(b, TypeOf.uint32)
  IN IF type.ok THEN read_bits(type, 32) ELSE type
read_bytes(b, n) == read_bits(b, 8 * n)

set_use_data_types(b, use) == [b EXCEPT !.types = use]

\* get_buffer: the bytes that hold a bit that was written
get_buffer(b) == SubSeq(b.buffer, 1, (b.current_bit + 7) \div 8)

-----------------------------------------------------------------------------
(* The services. *)

Auth == {"bdSteamAuth", "bdDediAuth", "bdDediRSAAuth"}
Seven == <<188, 2, 0, 0>>   \* 700, no error

\* What the services read of a request first: <<title_id or seed>> in their order.
\* The dedicated server's read no size for the ticket, whose length is then what
\* the stack holds; the ticket read by it decides over nothing that is modelled.
read_request(service, data) ==
  LET untyped == read_bool(set_use_data_types(bit_buffer(data), FALSE))
      first == read_uint32(set_use_data_types(untyped, TRUE))
      second == read_uint32(first)
  IN IF service \in Auth THEN [seed |-> first.out, title_id |-> second.out]
                         ELSE [seed |-> second.out, title_id |-> first.out]

auth_response(seed, enc_ticket) ==
  LET start == set_use_data_types(bit_buffer(<<>>), FALSE)
      error == write_uint32(write_bool(start, <<0>>), Seven)
  IN get_buffer(write_bytes(write_uint32(error, seed), enc_ticket))

\* What the game asks: more_data without its type, then typed values.
Request(service, seed, title_id, ticket) ==
  LET more == write_bool(set_use_data_types(bit_buffer(<<>>), FALSE), <<1>>)
      typed == set_use_data_types(more, TRUE)
      numbers == IF service \in Auth THEN <<seed, title_id>> ELSE <<title_id, seed>>
  IN get_buffer(write_bytes(FoldLeft(write_uint32, typed, numbers), ticket))

-----------------------------------------------------------------------------
BitInit ==
  /\ bits = bit_buffer(<<>>)
  /\ written = <<>>
  /\ returned = <<>>
  /\ reply = <<>>

WriteOf(kind, data, after) ==
  /\ returned = <<>>
  /\ Len(written) < MaxWrites
  /\ bits' = after
  /\ written' = Append(written, [kind |-> kind, types |-> bits.types, data |-> data])
  /\ UNCHANGED <<returned, reply>>

UseTypes ==
  /\ returned = <<>> /\ Len(written) < MaxWrites
  /\ bits' = set_use_data_types(bits, ~bits.types)
  /\ UNCHANGED <<written, returned, reply>>

\* The receiver of the message reads the same kinds of values in turn.
Receive ==
  LET read_next(b, w) ==
        LET c == set_use_data_types(b.buffer, w.types)
            o == CASE w.kind = "bool" -> read_bool(c)
                   [] w.kind = "uint32" -> read_uint32(c)
                   [] w.kind = "bytes" -> read_bytes(c, Len(w.data))
        IN [buffer |-> o, values |-> Append(b.values, IF o.ok THEN o.out ELSE <<>>)]
  IN /\ returned = <<>> /\ written # <<>>
     /\ returned' = FoldLeft(read_next, [buffer |-> bit_buffer(get_buffer(bits)),
                                         values |-> <<>>], written).values
     /\ UNCHANGED <<bits, written, reply>>

\* An authentication is asked and answered; the greeting has no answer, but its
\* seed and ticket become the keys.
call_auth_service(service, seed, title_id, ticket) ==
  LET request == read_request(service, Request(service, seed, title_id, ticket))
  IN /\ written = <<>> /\ reply = <<>>
     /\ reply' = <<[service |-> service, seed |-> seed,
                    data |-> IF service \in Auth
                             THEN auth_response(request.seed, ticket)
                             ELSE request.seed]>>
     /\ UNCHANGED <<bits, written, returned>>

BitNext ==
  \/ \E data \in {<<0>>, <<1>>} : WriteOf("bool", data, write_bool(bits, data))
  \/ \E data \in Uint32 : WriteOf("uint32", data, write_uint32(bits, data))
  \/ \E data \in BitBytes : WriteOf("bytes", data, write_bytes(bits, data))
  \/ UseTypes
  \/ Receive
  \/ \E service \in Auth \cup {"bdLSGHello"}, seed \in Uint32, title_id \in Uint32,
        ticket \in BitBytes : call_auth_service(service, seed, title_id, ticket)

-----------------------------------------------------------------------------
(* Properties. *)

\* The seed an answer to an authentication carries, as its receiver reads it.
SeedOf(r) ==
  IF r.service \in Auth
  THEN read_uint32(read_uint32(read_bool(
         set_use_data_types(bit_buffer(r.data), FALSE)))).out
  ELSE r.data

\* Whatever values stand before it and wherever in a byte they end, every value
\* is read as it was written, and an authentication answers with its own seed.
BitsReadBack ==
  /\ returned # <<>> => returned = [i \in DOMAIN written |-> written[i].data]
  /\ \A i \in DOMAIN reply : SeedOf(reply[i]) = reply[i].seed
=============================================================================
