---------------------------- MODULE GgufTokenizer ----------------------------
(***************************************************************************)
(* The tokenizer of a GGUF file: what loading it, encoding a text and      *)
(* decoding tokens refuse, and the ids they deal in.  A token's text is a  *)
(* value, its id its place in the vocabulary.  A text is a sequence of     *)
(* pieces, each the text of a token the vocabulary may or may not have;    *)
(* how the pieces are cut and merged is left out, and "byte" stands for    *)
(* the tokens of single bytes.                                             *)
(***************************************************************************)
EXTENDS GgufFile

Tokens(index) == Meta(index.metadata, "tokenizer.ggml.tokens", <<>>)

(* load_gguf_tokenizer: types that are not given are made for every token.  *)
TokenizerLoads(index) ==
  /\ "tokenizer.ggml.tokens" \in DOMAIN index.metadata
  /\ Len(Meta(index.metadata, "tokenizer.ggml.token_type", Tokens(index))) = Len(Tokens(index))

(* gguf_encode_text knows one kind of tokenizer.                            *)
CanEncode(index) ==
  /\ Meta(index.metadata, "tokenizer.ggml.model", "") = "gpt2"
  /\ Meta(index.metadata, "tokenizer.ggml.pre", "") = "qwen35"

HasToken(tokens, piece) == \E n \in DOMAIN tokens : tokens[n] = piece

(* format_qwen35_chat_prompt asks for the markers its template writes; a    *)
(* prompt with images is encoded without them too.                          *)
HasChatTokens(tokens) == HasToken(tokens, "im_start") /\ HasToken(tokens, "im_end")

(* token_to_id keeps the first of equal tokens.                             *)
TokenId(tokens, piece) == Min({n \in DOMAIN tokens : tokens[n] = piece}) - 1

(* bpe_encode_word: a piece that is no token is spelled in bytes, and what  *)
(* the vocabulary cannot spell is dropped.                                  *)
Spelled(tokens, piece) ==
  IF HasToken(tokens, piece) THEN <<TokenId(tokens, piece)>>
  ELSE IF HasToken(tokens, "byte") THEN <<TokenId(tokens, "byte")>> ELSE <<>>

(* gguf_encode_text                                                         *)
EncodeText(tokens, text) ==
  LET encoded[n \in 0..Len(text)] ==
        IF n = 0 THEN <<>> ELSE encoded[n - 1] \o Spelled(tokens, text[n])
  IN encoded[Len(text)]

(* gguf_decode_token_text                                                   *)
Decodable(tokens, ids) == \A n \in DOMAIN ids : ids[n] < Len(tokens)

=============================================================================
