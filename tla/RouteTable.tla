----------------------------- MODULE RouteTable -----------------------------
(***************************************************************************)
(* What is written down in backend/src/services/registry.ts: the table of  *)
(* routes, row by row in its order, and the two lists of services that are *)
(* kept by hand beside it. Of a row: the path, the price in thousandths of *)
(* a dollar, the method and whether the body becomes the query, the keys   *)
(* it declares in requiredEnv, the keys it uses and how: in a bearer       *)
(* header, which throws without its key, or in another header or the URL,  *)
(* which are sent without it.                                              *)
(***************************************************************************)
EXTENDS Sequences

Post == [service |-> "", path |-> <<>>, price |-> 0, upstreamMethod |-> "POST",
         bodyToQuery |-> FALSE, requiredEnv |-> {}, keys |-> {}, throws |-> FALSE, inUrl |-> ""]
Get == [Post EXCEPT !.upstreamMethod = "GET"]
GetByBody == [Get EXCEPT !.bodyToQuery = TRUE]

\* inUrl is the name of the key's parameter, in small letters.
Bearer(row, key) == [row EXCEPT !.keys = {key}, !.throws = TRUE]
Sending(row, keys) == [row EXCEPT !.keys = keys]
InUrl(row, key, param) == [row EXCEPT !.keys = {key}, !.inUrl = param]
Declared(row) == [row EXCEPT !.requiredEnv = row.keys]

\* The rows of a service that differ only in path and price.
Sells(service, row, ends) ==
    [i \in DOMAIN ends |->
        [row EXCEPT !.service = service, !.path = ends[i][1], !.price = ends[i][2]]]

V1(path, price) == <<<<"v1">> \o path, price>>

\* Models of language, images and sound;
ModelRoutes ==
    Sells("openai", Declared(Bearer(Post, "OPENAI_API_KEY")), <<
          V1(<<"chat", "completions">>, 10), V1(<<"embeddings">>, 1),
          V1(<<"images", "generations">>, 50), V1(<<"audio", "transcriptions">>, 10),
          V1(<<"audio", "speech">>, 20)>>) \o
    Sells("anthropic", Declared(Sending(Post, {"ANTHROPIC_API_KEY"})), <<
          V1(<<"messages">>, 10)>>) \o
    Sells("gemini", Declared(Sending(Post, {"GEMINI_API_KEY"})), <<
          <<<<"v1beta", "models", "gemini-2.5-flash">>, 5>>,
          <<<<"v1beta", "models", "gemini-2.5-pro">>, 20>>,
          <<<<"v1beta", "models", "embedding-001">>, 1>>>>) \o
    Sells("deepseek", Bearer(Post, "DEEPSEEK_API_KEY"), <<
          V1(<<"chat", "completions">>, 5)>>) \o
    Sells("groq", Bearer(Post, "GROQ_API_KEY"), <<
          V1(<<"chat", "completions">>, 5), V1(<<"audio", "transcriptions">>, 5)>>) \o
    Sells("cohere", Bearer(Post, "COHERE_API_KEY"), <<
          V1(<<"chat">>, 5), V1(<<"embed">>, 5), V1(<<"rerank">>, 5)>>) \o
    Sells("mistral", Bearer(Post, "MISTRAL_API_KEY"), <<
          V1(<<"chat", "completions">>, 5), V1(<<"embeddings">>, 5)>>) \o
    Sells("perplexity", Bearer(Post, "PERPLEXITY_API_KEY"), <<
          V1(<<"chat", "completions">>, 10)>>) \o
    Sells("together", Bearer(Post, "TOGETHER_API_KEY"), <<
          V1(<<"chat", "completions">>, 5), V1(<<"images", "generations">>, 30),
          V1(<<"embeddings">>, 1)>>) \o
    Sells("fal", Sending(Post, {"FAL_KEY"}), <<
          <<<<"fal-ai", "flux", "dev">>, 30>>, <<<<"fal-ai", "flux-pro">>, 50>>,
          <<<<"fal-ai", "flux-realism">>, 30>>, <<<<"fal-ai", "recraft-20b">>, 30>>,
          <<<<"fal-ai", "whisper">>, 10>>>>)

\* search, news, markets, maps and translation;
SearchRoutes ==
    Sells("firecrawl", Declared(Bearer(Post, "FIRECRAWL_API_KEY")), <<
          V1(<<"scrape">>, 10), V1(<<"crawl">>, 50), V1(<<"map">>, 10),
          V1(<<"extract">>, 20)>>) \o
    Sells("brave", Declared(Sending(GetByBody, {"BRAVE_SEARCH_API_KEY"})), <<
          V1(<<"web", "search">>, 7), V1(<<"images", "search">>, 7),
          V1(<<"news", "search">>, 7), V1(<<"videos", "search">>, 7),
          V1(<<"summarizer", "search">>, 10)>>) \o
    Sells("exa", Sending(Post, {"EXA_API_KEY"}), <<
          V1(<<"search">>, 5), V1(<<"contents">>, 5)>>) \o
    Sells("serper", Sending(Post, {"SERPER_API_KEY"}), <<
          V1(<<"search">>, 5), V1(<<"images">>, 5)>>) \o
    Sells("serpapi", InUrl(GetByBody, "SERPAPI_API_KEY", "api_key"), <<
          V1(<<"search">>, 5), V1(<<"locations">>, 5), V1(<<"flights">>, 10)>>) \o
    Sells("newsapi", Sending(GetByBody, {"NEWSAPI_API_KEY"}), <<
          V1(<<"headlines">>, 20), V1(<<"search">>, 20)>>) \o
    Sells("alphavantage", InUrl(GetByBody, "ALPHAVANTAGE_API_KEY", "apikey"), <<
          V1(<<"quote">>, 5), V1(<<"search">>, 5), V1(<<"daily">>, 5)>>) \o
    Sells("coingecko", InUrl(GetByBody, "COINGECKO_API_KEY", "x_cg_demo_api_key"), <<
          V1(<<"price">>, 5), V1(<<"markets">>, 5), V1(<<"trending">>, 5)>>) \o
    Sells("openweather", InUrl(GetByBody, "OPENWEATHER_API_KEY", "appid"), <<
          V1(<<"weather">>, 5), V1(<<"forecast">>, 5)>>) \o
    Sells("googlemaps", InUrl(GetByBody, "GOOGLE_MAPS_API_KEY", "key"), <<
          V1(<<"geocode">>, 10), V1(<<"places">>, 10), V1(<<"directions">>, 10)>>) \o
    Sells("translate", InUrl(GetByBody, "GOOGLE_TRANSLATE_API_KEY", "key"), <<
          V1(<<"translate">>, 5), V1(<<"detect">>, 5)>>) \o
    Sells("deepl", Sending(Post, {"DEEPL_API_KEY"}), <<V1(<<"translate">>, 30)>>)

\* mail, speech and tools;
ToolRoutes ==
    Sells("resend", Bearer(Post, "RESEND_API_KEY"), <<
          V1(<<"emails">>, 5), V1(<<"emails", "batch">>, 10)>>) \o
    Sells("elevenlabs", Sending(Post, {"ELEVENLABS_API_KEY"}), <<
          V1(<<"sound-generation">>, 80), V1(<<"text-to-speech", ":voiceId">>, 80)>>) \o
    Sells("assemblyai", Sending(Post, {"ASSEMBLYAI_API_KEY"}), <<V1(<<"transcribe">>, 20)>>) \o
    Sells("assemblyai", Sending(Get, {"ASSEMBLYAI_API_KEY"}), <<
          V1(<<"result", ":id">>, 1)>>) \o
    Sells("judge0", Sending(Post, {"RAPIDAPI_KEY"}), <<
          V1(<<"languages">>, 1), V1(<<"submissions">>, 5)>>) \o
    Sells("hunter", InUrl(GetByBody, "HUNTER_API_KEY", "api_key"), <<
          V1(<<"search">>, 5), V1(<<"verify">>, 5)>>) \o
    Sells("ipinfo", InUrl(Get, "IPINFO_API_KEY", "token"), <<V1(<<"lookup", ":ip">>, 5)>>) \o
    Sells("jina", Bearer(Get, "JINA_API_KEY"), <<V1(<<"read", ":target">>, 5)>>) \o
    Sells("replicate", Bearer(Post, "REPLICATE_API_KEY"), <<V1(<<"predictions">>, 30)>>) \o
    Sells("replicate", Bearer(Get, "REPLICATE_API_KEY"), <<
          V1(<<"predictions", "status", ":id">>, 1)>>) \o
    Sells("screenshot", InUrl(GetByBody, "SCREENSHOTONE_API_KEY", "access_key"), <<
          V1(<<"capture">>, 10)>>) \o
    Sells("pdfshift", Sending(Post, {"PDFSHIFT_API_KEY"}), <<V1(<<"convert">>, 10)>>) \o
    Sells("stability", Bearer(Post, "STABILITY_API_KEY"), <<
          V1(<<"generate", "sd3">>, 80), V1(<<"generate", "core">>, 50),
          V1(<<"generate", "ultra">>, 100)>>) \o
    Sells("huggingface", Bearer(Post, "HUGGINGFACE_API_KEY"), <<
          V1(<<"models", ":modelId">>, 5)>>) \o
    Sells("ai21", Bearer(Post, "AI21_API_KEY"), <<
          V1(<<"chat", "completions">>, 10), V1(<<"summarize">>, 5)>>) \o
    Sells("runway", Bearer(Post, "RUNWAYML_API_SECRET"), <<V1(<<"image_to_video">>, 100)>>) \o
    Sells("runway", Bearer(Get, "RUNWAYML_API_SECRET"), <<V1(<<"tasks", ":id">>, 1)>>) \o
    Sells("twilio", Declared(Sending(Post, {"TWILIO_ACCOUNT_SID", "TWILIO_AUTH_TOKEN"})), <<
          V1(<<"messages">>, 20)>>) \o
    Sells("sendgrid", Bearer(Post, "SENDGRID_API_KEY"), <<V1(<<"mail", "send">>, 5)>>) \o
    Sells("birdeye", Sending(GetByBody, {"BIRDEYE_API_KEY"}), <<
          V1(<<"price">>, 5), V1(<<"ohlcv">>, 5), V1(<<"trades">>, 5)>>)

\* chains, workspaces and data.
DataRoutes ==
    Sells("dexscreener", Get, <<
          V1(<<"pairs", ":chainId", ":tokenAddress">>, 5),
          V1(<<"tokens", ":tokenAddresses">>, 5)>>) \o
    Sells("helius", InUrl(Post, "HELIUS_API_KEY", "api-key"), <<V1(<<"transactions">>, 5)>>) \o
    Sells("helius", InUrl(Get, "HELIUS_API_KEY", "api-key"), <<
          V1(<<"addresses", ":address", "transactions">>, 5)>>) \o
    Sells("jupiter", GetByBody, <<V1(<<"price">>, 5), V1(<<"quote">>, 5)>>) \o
    Sells("notion", Bearer(Post, "NOTION_API_KEY"), <<
          V1(<<"databases", ":databaseId", "query">>, 5), V1(<<"pages">>, 5),
          V1(<<"search">>, 5)>>) \o
    Sells("linear", Sending(Post, {"LINEAR_API_KEY"}), <<V1(<<"graphql">>, 5)>>) \o
    Sells("airtable", Bearer(Get, "AIRTABLE_API_KEY"), <<
          V1(<<"bases", ":baseId", ":tableId">>, 5)>>) \o
    Sells("clearbit", Bearer(GetByBody, "CLEARBIT_API_KEY"), <<
          V1(<<"people", "find">>, 20), V1(<<"companies", "find">>, 20)>>) \o
    Sells("wolfram", InUrl(GetByBody, "WOLFRAM_APP_ID", "appid"), <<
          V1(<<"query">>, 5), V1(<<"short">>, 5)>>) \o
    Sells("polygon", InUrl(Get, "POLYGON_API_KEY", "apikey"), <<
          V1(<<"prev", ":ticker">>, 5)>>) \o
    Sells("polygon", InUrl(GetByBody, "POLYGON_API_KEY", "apikey"), <<
          V1(<<"tickers">>, 5)>>) \o
    Sells("openrouter", Bearer(Post, "OPENROUTER_API_KEY"), <<
          V1(<<"chat", "completions">>, 10)>>) \o
    Sells("openrouter", Bearer(Get, "OPENROUTER_API_KEY"), <<V1(<<"models">>, 1)>>) \o
    Sells("crunchbase", Sending(Get, {"CRUNCHBASE_API_KEY"}), <<
          V1(<<"organizations", ":permalink">>, 20)>>) \o
    Sells("tavily", Post, <<V1(<<"search">>, 5), V1(<<"extract">>, 5)>>) \o
    Sells("pinecone", Declared(Sending(Post, {"PINECONE_API_KEY", "PINECONE_INDEX_HOST"})), <<
          V1(<<"query">>, 5), V1(<<"vectors", "upsert">>, 5)>>)

AllRows == ModelRoutes \o SearchRoutes \o ToolRoutes \o DataRoutes

\* The segments that begin with a colon.
ParameterSegments ==
    {":address", ":baseId", ":chainId", ":databaseId", ":id", ":ip", ":modelId",
     ":permalink", ":tableId", ":target", ":ticker", ":tokenAddress",
     ":tokenAddresses", ":voiceId"}

DescribedServices ==
    {"alphavantage", "anthropic", "assemblyai", "brave", "cohere", "coingecko",
     "deepl", "deepseek", "elevenlabs", "exa", "fal", "firecrawl", "gemini",
     "googlemaps", "groq", "hunter", "ipinfo", "jina", "judge0", "mistral", "newsapi",
     "openai", "openweather", "pdfshift", "perplexity", "replicate", "resend",
     "screenshot", "serpapi", "serper", "together", "translate", "stability",
     "huggingface", "ai21", "runway", "twilio", "sendgrid", "birdeye", "dexscreener",
     "helius", "jupiter", "notion", "linear", "airtable", "clearbit", "wolfram",
     "polygon", "openrouter", "crunchbase", "tavily", "pinecone"}

EnabledServices ==
    {"openai", "anthropic", "gemini", "deepseek", "groq", "cohere", "mistral",
     "perplexity", "together", "fal", "firecrawl", "brave", "exa", "serper", "serpapi",
     "newsapi", "alphavantage", "coingecko", "openweather", "googlemaps", "translate",
     "deepl", "resend", "elevenlabs", "assemblyai", "judge0", "hunter", "ipinfo",
     "jina", "replicate", "screenshot", "pdfshift", "stability", "huggingface", "ai21",
     "runway", "twilio", "sendgrid", "birdeye", "dexscreener", "helius", "jupiter",
     "notion", "linear", "airtable", "clearbit", "wolfram", "polygon", "openrouter",
     "crunchbase", "tavily", "pinecone"}

=============================================================================
