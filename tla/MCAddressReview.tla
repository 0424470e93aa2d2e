--------------------------- MODULE MCAddressReview ---------------------------
(* A small instance of AddressReview for TLC. *)
EXTENDS AddressReview

Prefix(id, len, lower) ==
    [str |-> [id |-> id, len |-> len, lower |-> lower], len |-> len]

\* Two usual prefixes, the longest the command allows, one in capitals, one whose
\* bytes are another's with a zero byte and two more behind them, and two with
\* lengths the command does not allow.
MCHRPs ==
    {Prefix("flare",  5,  TRUE),
     Prefix("costwo", 6,  TRUE),
     Prefix("long",   83, TRUE),
     Prefix("FLARE",  5,  FALSE),
     [Prefix("flare", 5,  TRUE) EXCEPT !.len = 8],
     Prefix("none",   0,  TRUE),
     Prefix("longer", 84, TRUE)}

\* docs/APDUSPEC.md:110 and :123: the answer to a prefix of 1 to 83 characters is
\* the key and the Bech32 encoded address.  Here a prefix of characters Bech32
\* allows, without a zero byte.
AddressIsWhole ==
    LET prefix == asked.hrp.str
    IN  answer # Nothing /\ ~disturbed /\ prefix.lower /\ prefix.len = asked.hrp.len =>
            answer.content.text = Bech32(prefix, asked.path)
==============================================================================
