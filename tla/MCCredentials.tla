--------------------------- MODULE MCCredentials ---------------------------
EXTENDS Credentials, TLC

\* Names that contain gpt or claude, and one with a vendor's prefix; no key, or
\* a key of OpenAI.
MCModels == {{"openai"}, {"anthropic"}}
MCKeys   == {{"openai"}}
=============================================================================
