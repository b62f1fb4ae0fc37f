------------------------------ MODULE MCContacts ------------------------------
EXTENDS Contacts, Stock

CONSTANTS a1, a2

MCAddrs == {a1, a2}
MCWords == {"p", "q"}

\* Strings of up to four characters of '%', '1', '2' and plain text: a
\* template may hold both placeholders, a stray '%' or digit, or a
\* placeholder split; inserted texts are up to two characters.
StockChars == {"%", "1", "2", "x"}

\* The stock texts built about contacts (MSGADDMEMBER with a name,
\* MSGGRPNAME with two) are substituted correctly, whatever translation
\* the callback answers.  The formula is about the constants only; it is
\* stated on the initial state.
StockReplChecked ==
    Init => StockReplCorrect(StockChars, 4, Texts(StockChars, 2))

=============================================================================
