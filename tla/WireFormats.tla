----------------------------- MODULE WireFormats ----------------------------
(***************************************************************************)
(* What crosses a wire as text or bytes: raw transactions, execution       *)
(* payloads and the requests that carry them.                              *)
(***************************************************************************)
EXTENDS Integers, SequencesExt

-----------------------------------------------------------------------------
(***************************************************************************)
(* Raw transactions between the live benchmark, which builds them, and     *)
(* eth2077-devnetd.rs, which decodes them, with the hex readers of both.   *)
(*                                                                         *)
(* A text is [pad, prefixes, digits, upper]: its white space, how often 0x *)
(* stands before it, its digits (NoDigit for what is none) and their case. *)
(* An RLP item is [list, bytes, items]; the library that splits bytes into *)
(* items is external.  NIBBLE is the base of a digit (16), U64 and U128    *)
(* are widths in bytes (8 and 16), ADDRESS and WORD lengths (20 and 32).   *)
(* An integer wider than U256 panics in ruint and is left out.             *)
(***************************************************************************)
CONSTANTS Refused, NIBBLE, U64, U128, ADDRESS, WORD

NoDigit == -1
BASE    == NIBBLE * NIBBLE

Text(pad, prefixes, digits, upper) == [pad |-> pad, prefixes |-> prefixes, digits |-> digits, upper |-> upper]

IsHex(text) == text.prefixes = 0 /\ NoDigit \notin ToSet(text.digits)

(* trim().strip_prefix("0x") takes one prefix, trim_start_matches all. *)
strip_prefix(text) == [text EXCEPT !.pad = 0, !.prefixes = Max({0, @ - 1})]
trim_start_matches(text) == [text EXCEPT !.pad = 0, !.prefixes = 0]

ValueOf(digits, base) == FoldLeft(LAMBDA v, d : v * base + d, 0, digits)

(* from_str_radix refuses white space, nothing at all and what overflows. *)
parse_hex_u64(text) ==
    LET raw == [text EXCEPT !.prefixes = Max({0, @ - 1})]
        sig == SelectInSeq(raw.digits, LAMBDA d : d # 0)
    IN  IF raw.pad # 0 \/ ~ IsHex(raw) \/ raw.digits = <<>> \/ (sig # 0 /\ Len(raw.digits) - sig + 1 > 2 * U64)
          THEN Refused ELSE ValueOf(raw.digits, NIBBLE)

(* Two digits make a byte; an odd number gets a leading 0. *)
parse_hex_bytes(text) ==
    LET raw  == strip_prefix(text)
        even == IF Len(raw.digits) % 2 = 1 THEN <<0>> \o raw.digits ELSE raw.digits
    IN  IF ~ IsHex(raw) THEN Refused
        ELSE [i \in 1 .. Len(even) \div 2 |-> even[2 * i - 1] * NIBBLE + even[2 * i]]

canonical_address(text) ==
    LET raw == trim_start_matches(text)
    IN  IF ~ IsHex(raw) \/ Len(raw.digits) # 2 * ADDRESS THEN Refused ELSE Text(0, 1, raw.digits, FALSE)

address_from_hex(text) ==
    IF canonical_address(text) = Refused THEN Refused ELSE parse_hex_bytes(canonical_address(text))

normalize_hash32(text) ==
    LET raw == strip_prefix(text)
    IN  IF ~ IsHex(raw) \/ Len(raw.digits) # 2 * WORD THEN Refused ELSE Text(0, 1, raw.digits, FALSE)

(* The benchmark's own reader takes one prefix only. *)
parse_address(text) ==
    LET raw == strip_prefix(text)
    IN  IF ~ IsHex(raw) \/ Len(raw.digits) # 2 * ADDRESS THEN Refused ELSE parse_hex_bytes(text)

-----------------------------------------------------------------------------
Data(bytes)  == [list |-> FALSE, bytes |-> bytes, items |-> <<>>]
List(items)  == [list |-> TRUE, bytes |-> <<>>, items |-> items]

val_at(rlp, i) == IF i \notin DOMAIN rlp.items \/ (i \in DOMAIN rlp.items /\ rlp.items[i].list)
                    THEN Refused ELSE rlp.items[i].bytes

Integer(bytes, width) == IF bytes = Refused \/ (bytes # Refused /\ Len(bytes) > width)
                           THEN Refused ELSE ValueOf(bytes, BASE)

rlp_u64(rlp, i)   == Integer(val_at(rlp, i), U64)
rlp_u128(rlp, i)  == Integer(val_at(rlp, i), U128)
rlp_u256(rlp, i)  == IF val_at(rlp, i) = Refused THEN Refused ELSE ValueOf(val_at(rlp, i), BASE)
rlp_bytes(rlp, i) == val_at(rlp, i)

(* No bytes are no address: a contract is created. *)
rlp_optional_address(rlp, i) ==
    LET raw == val_at(rlp, i)
    IN  IF raw # Refused /\ Len(raw) \notin {0, ADDRESS} THEN Refused ELSE raw

IsList(rlp, i) == i \in DOMAIN rlp.items /\ rlp.items[i].list

rlp_b256_list(rlp, i) ==
    LET list == rlp.items[i]
        of   == [k \in DOMAIN list.items |-> val_at(list, k)]
    IN  IF ~ IsList(rlp, i) THEN Refused
        ELSE IF \E k \in DOMAIN of : of[k] = Refused \/ (of[k] # Refused /\ Len(of[k]) # WORD) THEN Refused
        ELSE of

Authorization(a) ==
    [chain_id |-> rlp_u256(a, 1), address |-> rlp_optional_address(a, 2), nonce |-> rlp_u64(a, 3),
     y_parity |-> rlp_u64(a, 4), r |-> rlp_u256(a, 5), s |-> rlp_u256(a, 6)]

Complete(record) == \A f \in DOMAIN record : record[f] # Refused

rlp_signed_authorization_list(rlp, i) ==
    LET list == rlp.items[i]
        of   == [k \in DOMAIN list.items |-> Authorization(list.items[k])]
    IN  IF ~ IsList(rlp, i) THEN Refused
        ELSE IF \A k \in DOMAIN of : /\ list.items[k].list /\ Complete(of[k])
                                     /\ of[k].address # <<>> /\ of[k].y_parity <= 1
          THEN of ELSE Refused

-----------------------------------------------------------------------------
Dynamic == [chain_id |-> 1, nonce |-> 2, max_priority |-> 3, gas_price |-> 4, gas_limit |-> 5,
            to |-> 6, value |-> 7, data |-> 8]

FeesSwapped(type) ==    \* mutant: the two fee columns of a dynamic-fee transaction swapped
    IF type >= 2 THEN [Dynamic EXCEPT !.max_priority = 4, !.gas_price = 3]
    ELSE [nonce |-> type + 1, gas_price |-> type + 2, gas_limit |-> type + 3,
          to |-> type + 4, value |-> type + 5, data |-> type + 6, chain_id |-> type, max_priority |-> 0]

(* Where decode_raw_tx finds each field of a transaction of a type. *)
Columns(type) ==
    IF type >= 2 THEN Dynamic
    ELSE [nonce |-> type + 1, gas_price |-> type + 2, gas_limit |-> type + 3,
          to |-> type + 4, value |-> type + 5, data |-> type + 6, chain_id |-> type, max_priority |-> 0]

(* A raw transaction is [type, rlp]: type 0 when its first byte opens an   *)
(* RLP list, and <<>> when there are no bytes.                             *)
decode_raw_tx(raw) ==
    LET c   == Columns(raw.type)
        rlp == raw.rlp
        tx  == [type |-> raw.type,
                chain_id |-> IF raw.type = 0 THEN <<>> ELSE rlp_u64(rlp, c.chain_id),
                nonce |-> rlp_u64(rlp, c.nonce), gas_price |-> rlp_u128(rlp, c.gas_price),
                max_priority |-> IF raw.type < 2 THEN <<>> ELSE rlp_u128(rlp, c.max_priority),
                gas_limit |-> rlp_u64(rlp, c.gas_limit), to |-> rlp_optional_address(rlp, c.to),
                value |-> rlp_u256(rlp, c.value), data |-> rlp_bytes(rlp, c.data),
                blob_fee |-> IF raw.type = 3 THEN rlp_u128(rlp, 10) ELSE <<>>,
                blob_hashes |-> IF raw.type = 3 THEN rlp_b256_list(rlp, 11) ELSE <<>>,
                authorizations |-> IF raw.type = 4 THEN rlp_signed_authorization_list(rlp, 10) ELSE <<>>]
    IN  IF raw = <<>> THEN Refused
        ELSE IF \/ ~ rlp.list
                \/ raw.type \notin 0 .. 4
                \/ ~ Complete(tx)
                \/ raw.type >= 3 /\ ~ IsList(rlp, 9)
                \/ raw.type = 4 /\ (tx.to = <<>> \/ tx.authorizations = <<>>)
               THEN Refused
        ELSE tx

-----------------------------------------------------------------------------
(* RlpStream appends an integer without leading zeros. *)
RECURSIVE BytesOf(_)
BytesOf(v) == IF v = 0 THEN <<>> ELSE Append(BytesOf(v \div BASE), v % BASE)

Number(v) == Data(BytesOf(v))

build_type2_raw_tx(chain_id, nonce, to, value_wei, gas_limit, max_priority, max_fee) ==
    [type |-> 2,
     rlp |-> List(<<Number(chain_id), Number(nonce), Number(max_priority), Number(max_fee),
                    Number(gas_limit), Data(to), Number(value_wei), Data(<<>>)>>)]

(* The node reads what the benchmark wrote, field by field, and fees in    *)
(* the order the worker gave them (live-bench main.rs:573, devnetd:654).   *)
NodeReadsBenchmark(a) ==
    LET tx == decode_raw_tx(build_type2_raw_tx(a.chain_id, a.nonce, a.to, a.value, a.gas_limit,
                                               a.max_priority, a.max_fee))
    IN  /\ tx # Refused
        /\ tx = [type |-> 2, chain_id |-> a.chain_id, nonce |-> a.nonce, gas_price |-> a.max_fee,
                 max_priority |-> a.max_priority, gas_limit |-> a.gas_limit, to |-> a.to, value |-> a.value,
                 data |-> <<>>, blob_fee |-> <<>>, blob_hashes |-> <<>>, authorizations |-> <<>>]

(* Nothing is read past the end: what is decoded from a transaction is     *)
(* refused from each of its shorter versions that lacks a field read, and  *)
(* what follows the fields read, the signature, changes nothing.           *)
TruncationIsRefused(raw) ==
    LET needed == <<6, 7, 8, 11, 10>>[raw.type + 1]
        Cut(n) == [raw EXCEPT !.rlp.items = SubSeq(@, 1, n)]
    IN  raw.type \in 0 .. 4 /\ decode_raw_tx(raw) # Refused =>
            \A n \in 0 .. Len(raw.rlp.items) :
                decode_raw_tx(Cut(n)) = IF n < needed THEN Refused ELSE decode_raw_tx(raw)

(* A quantity the short reader takes has the value of its bytes. *)
ReadersAgree(text) ==
    parse_hex_u64(text) # Refused => parse_hex_u64(text) = ValueOf(parse_hex_bytes(text), BASE)

(* Every spelling of an address is one address to the node, and one that   *)
(* the benchmark accepts means the same bytes to both.                     *)
SpellingsAgree(a, b) ==
    /\ canonical_address(a) # Refused =>
         /\ canonical_address(canonical_address(a)) = canonical_address(a)
         /\ (canonical_address(a) = canonical_address(b)) = (address_from_hex(a) = address_from_hex(b))
    /\ parse_address(a) # Refused => parse_address(a) = address_from_hex(a)
    /\ normalize_hash32(a) # Refused => normalize_hash32(normalize_hash32(a)) = normalize_hash32(a)

-----------------------------------------------------------------------------
(***************************************************************************)
(* The bridge's conversion between its blocks and execution payloads       *)
(* (payload_converter.rs).  A hex text is the sequence of its digits after *)
(* the optional prefix, with Bad for a character that is no digit; a block *)
(* here has one field of each kind the code converts: a fixed word, a      *)
(* quantity and the transactions.                                          *)
(***************************************************************************)
Bad  == -1
NotBytes == <<-1>>    \* no sequence of bytes

encode_hex_bytes(bytes) == FlattenSeq([i \in DOMAIN bytes |-> <<bytes[i] \div 16, bytes[i] % 16>>])

decode_hex_bytes(text) ==
    IF Len(text) % 2 # 0 \/ Bad \in ToSet(text) THEN NotBytes
    ELSE [i \in 1 .. Len(text) \div 2 |-> 16 * text[2 * i - 1] + text[2 * i]]

OrDefault(decoded) == IF decoded = NotBytes THEN <<>> ELSE decoded

FixedLeftAligned(text, n) ==    \* mutant: a short word is padded on the right
    LET d == OrDefault(decode_hex_bytes(text))
    IN  IF Len(d) >= n THEN SubSeq(d, Len(d) - n + 1, Len(d))
        ELSE d \o [i \in 1 .. n - Len(d) |-> 0]

(* decode_fixed_hex_bytes: the last n bytes, padded with zeros on the left. *)
decode_fixed_hex_bytes(text, n) ==
    LET d == OrDefault(decode_hex_bytes(text))
    IN  IF Len(d) >= n THEN SubSeq(d, Len(d) - n + 1, Len(d))
        ELSE [i \in 1 .. n - Len(d) |-> 0] \o d

(* The digits of a quantity, without leading zeros; 0 is the one digit 0. *)
encode_hex_quantity[q \in Nat] ==
    IF q < 16 THEN <<q>> ELSE Append(encode_hex_quantity[q \div 16], q % 16)

TextValue(text) == FoldLeft(LAMBDA n, d : 16 * n + d, 0, text)

(* from_str_radix fails on a bad digit and on a value of more than w bits. *)
decode_hex_quantity(text, w) ==
    IF text = <<>> \/ Bad \in ToSet(text) \/ TextValue(text) >= 2 ^ w THEN 0
    ELSE TextValue(text)

to_execution_payload(b) ==
    [word |-> encode_hex_bytes(b.word), quantity |-> encode_hex_quantity[b.quantity],
     transactions |-> [i \in DOMAIN b.transactions |-> encode_hex_bytes(b.transactions[i])]]

from_execution_payload(p, n, w) ==
    [word |-> decode_fixed_hex_bytes(p.word, n), quantity |-> decode_hex_quantity(p.quantity, w),
     transactions |-> [i \in DOMAIN p.transactions |->
                         OrDefault(decode_hex_bytes(p.transactions[i]))]]

-----------------------------------------------------------------------------
(* A block survives the trip through a payload. *)
BlockRoundTrips(b, n, w) == from_execution_payload(to_execution_payload(b), n, w) = b

(* A word read from any text has n bytes, and the text's value modulo      *)
(* 256^n when the text is hex; a quantity never exceeds its width.         *)
BytesValue(bytes) == FoldLeft(LAMBDA n, b : 256 * n + b, 0, bytes)

WordsKeepTheirValue(text, n, w) ==
    LET word == decode_fixed_hex_bytes(text, n)
    IN  /\ Len(word) = n
        /\ decode_hex_bytes(text) # NotBytes => BytesValue(word) = TextValue(text) % (256 ^ n)
        /\ decode_hex_quantity(text, w) < 2 ^ w

-----------------------------------------------------------------------------
(***************************************************************************)
(* The HTTP and JSON-RPC front of eth2077-devnetd.rs: how a request is put *)
(* together from what the socket delivers, and how its body is answered.   *)
(*                                                                         *)
(* A request is a sequence of symbols: CR and LF are bytes, a header line  *)
(* and a byte of the body one symbol each, since no code looks inside a    *)
(* line before its head is complete.  A content-length line is <<"length", *)
(* n>>, n Unreadable when it is no number.  Bound is 2 MiB.                *)
(***************************************************************************)
CONSTANTS
    Bound,
    Served,     \* the engine calls, by their JSON-RPC method and by their path
    Read        \* the paths that are read: health, status and capabilities

Nothing    == -1
Unreadable == -1
CR         == <<"CR", 0>>
LF         == <<"LF", 0>>
Blank      == <<CR, LF, CR, LF>>

find_subslice(haystack, needle) ==
    SelectInSeq([i \in 1 .. Len(haystack) - Len(needle) + 1 |-> i],
                LAMBDA i : SubSeq(haystack, i, i + Len(needle) - 1) = needle)

(* The first content-length line decides, readable or not. *)
ContentLength(head) ==
    LET i == SelectInSeq(head, LAMBDA s : s[1] = "length")
    IN  IF i = 0 THEN Nothing ELSE head[i][2]

Start == [req_bytes |-> <<>>, header_end |-> Nothing, content_length |-> Nothing, done |-> FALSE]

Expected(c) == c.header_end + Max({0, c.content_length})

HeadInPiece(c, piece) ==    \* mutant: the end of the head is sought in the new piece only
    LET all == c.req_bytes \o piece
        i   == find_subslice(piece, Blank)
    IN  IF c.header_end # Nothing \/ i = 0 THEN [c EXCEPT !.req_bytes = all]
        ELSE [c EXCEPT !.req_bytes = all, !.header_end = Len(c.req_bytes) + i + 3,
                       !.content_length = ContentLength(SubSeq(all, 1, Len(c.req_bytes) + i + 3))]

(* The head is sought in all that has come so far, until it is found. *)
Received(c, piece) ==
    LET all == c.req_bytes \o piece
        i   == find_subslice(all, Blank)
    IN  IF c.header_end # Nothing \/ i = 0 THEN [c EXCEPT !.req_bytes = all]
        ELSE [c EXCEPT !.req_bytes = all, !.header_end = i + 3,
                       !.content_length = ContentLength(SubSeq(all, 1, i + 3))]

(* One turn of the read loop; an empty piece is the end of the stream. *)
ReadPiece(c, piece) ==
    IF c.done THEN c
    ELSE IF piece = <<>> THEN [c EXCEPT !.done = TRUE]
    ELSE LET d == Received(c, piece)
         IN  [d EXCEPT !.done = \/ d.header_end # Nothing /\ Len(d.req_bytes) >= Expected(d)
                                \/ Len(d.req_bytes) > Bound]

ReadRequest(pieces) == FoldLeft(ReadPiece, Start, pieces)

request_body_from_http(c) ==
    IF c.header_end = Nothing THEN <<>>
    ELSE SubSeq(c.req_bytes, c.header_end + 1, Min({Len(c.req_bytes), Expected(c)}))

-----------------------------------------------------------------------------
(* A JSON-RPC request is [object, id, method, params]: id Nothing when it  *)
(* has none.  The node's state is the sequence of calls it has made, and   *)
(* the answer to a call the state it was made in.                          *)
jsonrpc_response(id, result) == [id |-> id, result |-> result]
jsonrpc_error(id, code)      == [id |-> id, result |-> <<code>>]

handle_jsonrpc(state, req) ==
    IF req.method \in Served
      THEN [state |-> Append(state, <<req.method, req.params>>), response |-> jsonrpc_response(req.id, state)]
      ELSE [state |-> state, response |-> jsonrpc_error(req.id, -32601)]

Handled(acc, req) ==
    IF ~ req.object THEN [acc EXCEPT !.responses = Append(@, jsonrpc_error(Nothing, -32600))]
    ELSE LET h == handle_jsonrpc(acc.state, req)
         IN  [state |-> h.state,
              responses |-> IF req.id = Nothing THEN acc.responses ELSE Append(acc.responses, h.response)]

(* A body is [json, batch, requests], requests of one element unless it is *)
(* a batch.  No responses are the 204 answer.                              *)
handle_jsonrpc_payload(state, body) ==
    IF body.batch /\ body.requests = <<>>
      THEN [state |-> state, responses |-> <<jsonrpc_error(Nothing, -32600)>>]
      ELSE FoldLeft(Handled, [state |-> state, responses |-> <<>>], body.requests)

(* What a request line leads to.  An engine path names the call itself and *)
(* takes null for a body it cannot read.                                   *)
Serve(state, method, path, body) ==
    CASE method = "POST" /\ path = "/" /\ body.json       -> handle_jsonrpc_payload(state, body)
      [] method = "POST" /\ path = "/" /\ ~ body.json     ->
            [state |-> state, responses |-> <<jsonrpc_error(Nothing, -32700)>>]
      [] method = "POST" /\ path \in Served               ->
            LET plain == body.json /\ ~ body.batch /\ body.requests[1].object
                h     == handle_jsonrpc(state, [id |-> Nothing, method |-> path,
                                                params |-> IF plain THEN body.requests[1].params ELSE Nothing])
            IN  [state |-> h.state, responses |-> <<h.response>>]
      [] method = "GET" /\ path \in Read                  -> [state |-> state, responses |-> <<path>>]
      [] method = "OPTIONS" /\ path = "/"                 -> [state |-> state, responses |-> <<>>]
      [] OTHER                                            -> [state |-> state, responses |-> <<"not found">>]

-----------------------------------------------------------------------------
(* The pieces of a request cut after the positions in a set. *)
Pieces(request, cuts) ==
    LET ends == SetToSortSeq(cuts \cup {Len(request)}, <)
    IN  [k \in DOMAIN ends |-> SubSeq(request, IF k = 1 THEN 1 ELSE ends[k - 1] + 1, ends[k])]

(* However the socket cuts a request within the bound, and whatever comes  *)
(* behind it, the body is what the client sent (devnetd:4141).             *)
BodyAsSent(head, n, rest, cuts) ==
    LET request == head \o Blank \o rest
        c       == ReadRequest(Append(Pieces(request, cuts), <<>>))
    IN  ContentLength(head) = n /\ n >= 0 /\ Len(rest) >= n /\ Len(request) <= Bound
            => c.done /\ request_body_from_http(c) = SubSeq(rest, 1, n)

(* A batch does what its requests do one by one, notifications included,   *)
(* and its answers are theirs, in their order (devnetd:3882).              *)
BatchIsSequence(batch) ==
    LET one(acc, req) ==
            LET h == Serve(acc.state, "POST", "/", [json |-> TRUE, batch |-> FALSE, requests |-> <<req>>])
            IN  [state |-> h.state, responses |-> acc.responses \o h.responses]
    IN  batch # <<>> =>
            Serve(<<>>, "POST", "/", [json |-> TRUE, batch |-> TRUE, requests |-> batch])
              = FoldLeft(one, [state |-> <<>>, responses |-> <<>>], batch)

(* A call has the same effect and result by its path and by JSON-RPC, and  *)
(* nothing but these changes the node (devnetd:4185).                      *)
TransportsAgree(req) ==
    LET body == [json |-> TRUE, batch |-> FALSE, requests |-> <<req>>]
        rpc  == Serve(<<>>, "POST", "/", body)
        http == Serve(<<>>, "POST", req.method, body)
    IN  /\ req.object => rpc.state = http.state
        /\ req.object /\ req.method \in Served /\ req.id # Nothing
             => rpc.responses[1].result = http.responses[1].result
        /\ Serve(<<>>, "GET", req.method, body).state = <<>>

=============================================================================
