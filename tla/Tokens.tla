------------------------------- MODULE Tokens -------------------------------
(***************************************************************************)
(* What the lexer hands to the parser: the types of include/token.hh that  *)
(* it gives to tokens, but for the end of the file.  TOKEN_BOOL is not     *)
(* among them: true and false are read as TOKEN_INT.                       *)
(***************************************************************************)
TokenTypes ==
    {"ID", "EQUALS", "LPAREN", "RPAREN", "LBRACE", "RBRACE", "LBRACKET",
     "RBRACKET", "COLON", "COMMA", "LT", "GT", "LEQ", "GEQ", "DEQ", "NEQ",
     "ARROW_RIGHT", "INT", "STRING", "CHAR", "SEMICOLON", "PLUS", "MINUS",
     "DIVIDE", "MULTIPLY", "LSHIFT", "RSHIFT", "DATA_TYPE", "KW_IF",
     "KW_ELSE", "KW_RETURN", "KW_WHILE", "KW_CLASS", "KW_CONSTRUCTOR",
     "KW_ACCESS_MODIFIER", "UNKNOWN"}
=============================================================================
