---------------------------- MODULE ApiMessages -----------------------------
(***************************************************************************)
(* The messages and services of the API and of the order book service as   *)
(* the web client has them: src/web/gen/api.ts, api.client.ts, clob.ts and *)
(* clob.client.ts, generated from the .proto files.  A message is the list *)
(* of its fields in the order they are written.                            *)
(***************************************************************************)
EXTENDS Integers, Sequences, TLC

-----------------------------------------------------------------------------
(* The field and method descriptors from which the generated message types *)
(* are built (FieldInfo and MethodInfo of protobuf-ts).                    *)

Field(card, no, name, T) == [card |-> card, no |-> no, name |-> name, T |-> T]

\* A scalar that is not written when it has its zero value.
One(no, name, T) == Field("one", no, name, T)
\* A scalar with presence: undefined, or written even when zero.
Opt(no, name, T) == Field("opt", no, name, T)
\* A message, undefined or present.
Msg(no, name, T) == Field("msg", no, name, T)
\* Repeated, one record for every element, or all in one.
Rep(no, name, T)    == Field("rep", no, name, T)
Packed(no, name, T) == Field("packed", no, name, T)
\* A map from strings.
Map(no, name, T) == Field("map", no, name, T)

Method(name, I, O, streaming) == [name |-> name, I |-> I, O |-> O, streaming |-> streaming]

Unary(name, I, O)     == Method(name, I, O, FALSE)
Streaming(name, I, O) == Method(name, I, O, TRUE)

\* Properties of an interface, by name: of a type, of a type or undefined, an
\* array, an object used as a map.
Declared(shape, T, names) == {[shape |-> shape, T |-> T, name |-> n] : n \in names}
Prop(T, names)    == Declared("value", T, names)
OptProp(T, names) == Declared("optional", T, names)
List(T, names)    == Declared("array", T, names)
Dict(T, names)    == Declared("map", T, names)

\* A method of a client class: the rpc it is generated for, the index it takes
\* from the service's methods, and the types of its signature.
Stub(rpc, index, I, O) == [rpc |-> rpc, index |-> index, I |-> I, O |-> O]

-----------------------------------------------------------------------------
(* The messages. *)

Empty == << >>

StdResponse == <<One(1, "message", "string"), One(2, "error_code", "int32")>>

LimitOffsetRequest == <<One(1, "limit", "int32"), One(2, "offset", "int32")>>

PaginationRes ==
    <<One(1, "limit", "int32"), One(2, "offset", "int32"), One(3, "total", "int64"),
      One(4, "has_more", "bool"), One(5, "next_offset", "int32")>>

MarketIdRequest == <<One(1, "market_id", "string"), Opt(2, "lang", "string")>>

TxIdRequest == <<One(1, "tx_id", "string")>>

AccountIdRequest == <<One(1, "account_id", "string"), One(2, "net", "string")>>

PrismPredictionIntentRequest ==
    <<One(1, "tx_id", "string"), One(2, "net", "string"), One(3, "market_id", "string"),
      One(5, "account_id", "string"), One(8, "sig", "string"), One(9, "public_key", "string"),
      One(10, "evm_address", "string"), One(11, "key_type", "uint32"),
      One(13, "chain_id", "uint64"), One(14, "verifying_contract", "string"),
      One(15, "side", "uint32"), One(16, "action", "uint32"),
      One(17, "limit_yes_price", "uint64"), One(18, "qty_shares", "uint64"),
      One(19, "collateral_cap", "uint64"), One(20, "deadline", "uint64")>>

Category == <<One(1, "id", "int32"), One(2, "name", "string")>>

UnixDateRange == <<One(1, "start", "int32"), One(2, "end", "int32")>>

MacroMetadataResponse ==
    <<Rep(1, "available_networks", "string"), Rep(2, "available_networks_admin", "string"),
      Map(3, "smart_contract_ids", "string"), Map(4, "usdc_token_ids", "string"),
      One(5, "usdc_decimals", "uint32"), One(6, "market_creation_fee_scaled_usdc", "uint64"),
      One(7, "n_markets", "uint32"), Map(8, "token_ids", "string"),
      One(9, "min_order_size_usd", "double"), One(10, "tv_pending_usd", "double"),
      One(11, "tv_matched_usd", "double"), One(12, "tvl_usd", "double"),
      Map(13, "total_volume_usd", "double"), One(14, "active_traders", "uint32"),
      Rep(15, "categories", "api.Category"),
      Rep(16, "sig_scheme_date_ranges", "api.UnixDateRange"),
      Map(17, "prism_v2_proxy_addresses", "string"), Map(18, "chain_ids", "uint64")>>

NewsLetterRequest == <<One(1, "email", "string")>>

UserPortfolioRequest ==
    <<One(1, "evm_address", "string"), One(2, "net", "string"), Opt(3, "market_id", "string")>>

PredictionIntentResponse ==
    <<One(1, "tx_id", "string"), One(2, "net", "string"), One(3, "market_id", "string"),
      One(4, "generated_at", "string"), One(5, "account_id", "string"),
      One(9, "side", "uint32"), One(10, "action", "uint32"),
      One(11, "limit_yes_price", "uint64"), One(12, "qty_shares", "uint64"),
      One(13, "collateral_cap", "uint64"), One(14, "deadline", "uint64"),
      One(15, "shares_filled", "uint64"), One(16, "collateral_filled", "uint64")>>

PredictionIntents == <<Rep(1, "prediction_intents", "api.PredictionIntentResponse")>>

Match ==
    <<One(1, "market_id", "string"), One(2, "tx_id1", "string"), One(3, "tx_id2", "string"),
      One(5, "price_usd", "double"), One(6, "qty1", "double"), One(7, "qty2", "double"),
      One(8, "created_at", "string"), One(9, "tx_hash", "string"),
      One(10, "price_usd1", "double"), One(11, "price_usd2", "double"),
      One(12, "match_id", "string"), One(13, "fill_shares", "uint64"),
      One(14, "execution_yes_price", "uint64"), One(15, "status", "string")>>

GetMatchesRequest ==
    <<One(1, "market_id", "string"), Opt(2, "limit", "int32"), Opt(3, "offset", "int32")>>

Position ==
    <<One(1, "market_id", "string"), One(2, "evm_address", "string"), One(3, "yes", "uint64"),
      One(4, "no", "uint64"), One(5, "updated_at", "string"), One(6, "created_at", "string")>>

PositionInfo ==
    <<Msg(1, "position", "api.Position"), One(2, "price_usd", "float"),
      One(3, "is_paused", "bool"), One(4, "resolved_at", "string"),
      One(5, "redeemed_at", "string"), Opt(6, "avg_price_yes_usd", "double"),
      Opt(7, "avg_price_no_usd", "double"), Opt(8, "cost_basis_yes_usd", "double"),
      Opt(9, "cost_basis_no_usd", "double"), Opt(10, "realized_pnl_usd", "double"),
      Opt(11, "cost_basis_as_of", "string")>>

UserPortfolioResponse ==
    <<Map(1, "positions", "api.PositionInfo"),
      Map(2, "open_prediction_intents", "api.PredictionIntents")>>

MarketResponse ==
    <<One(1, "market_id", "string"), One(2, "net", "string"), One(3, "statement", "string"),
      One(4, "is_paused", "bool"), One(5, "is_suspended", "bool"),
      One(6, "created_at", "string"), One(7, "resolved_at", "string"),
      One(8, "image_url", "string"), One(9, "price_usd", "float"),
      One(10, "description", "string"), One(11, "rules", "string"),
      One(12, "closes_at", "string"), Opt(13, "outcome", "int32"),
      One(14, "smart_contract_id", "string"), Packed(15, "category_ids", "int32"),
      One(16, "alias_yes", "string"), One(17, "alias_no", "string"),
      One(18, "hex_color_yes", "string"), One(19, "hex_color_no", "string"),
      One(20, "rake_percent", "float"), One(21, "is_lom_enabled", "bool")>>

MarketsResponse == <<Rep(1, "markets", "api.MarketResponse")>>

PriceHistoryRequest ==
    <<One(1, "market_id", "string"), One(2, "net", "string"), One(3, "resolution", "string"),
      One(4, "from", "string"), One(5, "to", "string"), Opt(6, "limit", "int32"),
      Opt(7, "offset", "int32")>>

PriceHistoryResponse == <<Packed(1, "timestamp_ms", "uint64"), Packed(2, "price_usd", "float")>>

GetCommentsRequest ==
    <<One(1, "market_id", "string"), Opt(2, "limit", "int32"), Opt(3, "offset", "int32")>>

Comment ==
    <<One(1, "account_id", "string"), One(2, "content", "string"), One(3, "sig", "string"),
      One(4, "public_key", "string"), One(5, "key_type", "uint32"),
      One(6, "created_at", "string")>>

CreateCommentResponse == <<Msg(1, "comment", "api.Comment")>>

GetCommentsResponse == <<Rep(1, "comments", "api.Comment")>>

CreateCommentRequest ==
    <<One(1, "market_id", "string"), One(2, "account_id", "string"),
      One(3, "content", "string"), One(4, "sig", "string"), One(5, "public_key", "string"),
      One(6, "key_type", "uint32")>>

CancelOrderRequest ==
    <<One(1, "market_id", "string"), One(2, "tx_id", "string"), One(3, "net", "string"),
      One(4, "account_id", "string"), One(5, "sig", "string"), One(6, "public_key", "string"),
      One(7, "key_type", "uint32")>>

TxHash == <<One(1, "tx_hash", "string"), One(2, "qty", "double")>>

TxIdHashesResponse == <<Rep(1, "tx_hashes", "api.TxHash")>>

ClaimPrismRequest ==
    <<One(1, "account_id", "string"), One(2, "net", "string"), One(3, "sig", "string"),
      One(4, "public_key", "string"), One(5, "key_type", "uint32")>>

PrismResponse ==
    <<One(1, "prism_balance", "uint64"), One(2, "prism_unredeemed", "uint64"),
      One(3, "prism_redeemable", "uint64")>>

LOMreward ==
    <<One(1, "market_id", "string"), One(2, "account_id", "string"),
      One(3, "distance", "float"), One(4, "size", "float"), One(5, "duration", "float"),
      One(6, "lom_score", "float"), One(7, "created_at", "string")>>

Pointsreward ==
    <<One(1, "market_id", "string"), One(2, "account_id", "string"), One(3, "points", "float"),
      One(4, "created_at", "string")>>

RewardsResponse ==
    <<Rep(1, "lom_rewards", "api.LOMreward"), Rep(2, "points_rewards", "api.Pointsreward")>>

CreateMarketv2Request ==
    <<One(1, "market_id", "string"), One(2, "net", "string"), One(3, "statement", "string"),
      Opt(4, "closes_at", "string"), One(5, "description", "string"), One(6, "rules", "string"),
      Packed(7, "category_ids", "int32"), One(8, "img_chunk", "bytes"),
      One(9, "img_file_name", "string"), One(10, "img_mime_type", "string"),
      Opt(11, "alias_yes", "string"), Opt(12, "alias_no", "string"),
      Opt(13, "hex_color_yes", "string"), Opt(14, "hex_color_no", "string"),
      Opt(15, "is_lom_enabled", "bool")>>

CreateMarketResponse ==
    <<Msg(1, "market_response", "api.MarketResponse"), One(2, "remaining_allowance", "uint64")>>

UpdateMarketRequest == <<One(1, "market_id", "string"), Packed(6, "category_ids", "int32")>>

PatchMarketRequest ==
    <<One(1, "market_id", "string"), Opt(2, "closes_at", "string"),
      Opt(3, "description", "string"), Opt(4, "rules", "string"),
      Opt(5, "category_ids_str_arr", "string"), Opt(6, "img_chunk", "bytes"),
      Opt(7, "img_file_name", "string"), Opt(8, "img_mime_type", "string"),
      Opt(9, "alias_yes", "string"), Opt(10, "alias_no", "string"),
      Opt(11, "hex_color_yes", "string"), Opt(12, "hex_color_no", "string"),
      Opt(13, "is_lom_enabled", "bool")>>

MatchesResponse == <<Rep(1, "matches", "api.Match"), Msg(2, "pagination", "api.PaginationRes")>>

PositionsResponse ==
    <<Rep(1, "positions", "api.Position"), Msg(2, "pagination", "api.PaginationRes")>>

PredictionIntentsResponse ==
    <<Rep(1, "prediction_intents", "api.PrismPredictionIntentRequest"),
      Msg(2, "pagination", "api.PaginationRes")>>

CommentIdRequest == <<One(1, "comment_id", "int32")>>

ResolveMarketRequest == <<One(1, "market_id", "string"), One(2, "outcome", "int32")>>

CategoryRequest ==
    <<Opt(1, "category_id", "int32"), One(2, "name", "string"), One(3, "is_active", "bool"),
      One(4, "description", "string")>>

CategoryResponse ==
    <<One(1, "id", "int32"), One(2, "name", "string"), One(3, "is_active", "bool"),
      One(4, "description", "string")>>

CategoryIdRequest == <<One(1, "category_id", "int32")>>

ChallengeRequest == <<One(1, "account_id", "string"), One(2, "network", "string")>>

VerifyChallengeRequest ==
    <<One(1, "challenge_response_base64", "string"), One(2, "payload", "string"),
      Msg(3, "challenge_request", "api.ChallengeRequest")>>

ApiServicePublic ==
    <<Unary("Health", "api.Empty", "api.StdResponse"),
      Unary("NewsLetter", "api.NewsLetterRequest", "api.StdResponse"),
      Unary("CreatePredictionIntent", "api.PrismPredictionIntentRequest", "api.StdResponse"),
      Unary("GetMarketById", "api.MarketIdRequest", "api.MarketResponse"),
      Unary("GetMarkets", "api.LimitOffsetRequest", "api.MarketsResponse"),
      Unary("PriceHistory", "api.PriceHistoryRequest", "api.PriceHistoryResponse"),
      Unary("MacroMetadata", "api.Empty", "api.MacroMetadataResponse"),
      Unary("CreateComment", "api.CreateCommentRequest", "api.CreateCommentResponse"),
      Unary("GetComments", "api.GetCommentsRequest", "api.GetCommentsResponse"),
      Unary("GetUserPortfolio", "api.UserPortfolioRequest", "api.UserPortfolioResponse"),
      Unary("CancelPredictionIntent", "api.CancelOrderRequest", "api.StdResponse"),
      Unary("GetTxHashes", "api.TxIdRequest", "api.TxIdHashesResponse"),
      Unary("GetPredictionIntentMatches", "api.GetMatchesRequest", "api.MatchesResponse"),
      Unary("GetPrism", "api.AccountIdRequest", "api.PrismResponse"),
      Unary("ClaimPrism", "api.ClaimPrismRequest", "api.StdResponse"),
      Unary("GetRewardsByMarketId", "api.MarketIdRequest", "api.RewardsResponse"),
      Unary("GetRewardsByAccountId", "api.AccountIdRequest", "api.RewardsResponse"),
      Unary("CreateMarketv2", "api.CreateMarketv2Request", "api.CreateMarketResponse"),
      Unary("UpdateMarket", "api.UpdateMarketRequest", "api.StdResponse"),
      Unary("PatchMarket", "api.PatchMarketRequest", "api.MarketResponse"),
      Unary("DeleteMarket", "api.MarketIdRequest", "api.StdResponse"),
      Unary("GetAllMatches", "api.LimitOffsetRequest", "api.MatchesResponse"),
      Unary("GetAllPositions", "api.LimitOffsetRequest", "api.PositionsResponse"),
      Unary("GetAllPredictionIntents", "api.LimitOffsetRequest", "api.PredictionIntentsResponse"),
      Unary("ToggleMarketPause", "api.MarketIdRequest", "api.StdResponse"),
      Unary("ToggleMarketSuspend", "api.MarketIdRequest", "api.StdResponse"),
      Unary("DeleteComment", "api.CommentIdRequest", "api.StdResponse"),
      Unary("ResolveMarket", "api.ResolveMarketRequest", "api.StdResponse"),
      Unary("CreateCategory", "api.CategoryRequest", "api.CategoryResponse"),
      Unary("UpdateCategory", "api.CategoryRequest", "api.CategoryResponse"),
      Unary("DeleteCategory", "api.CategoryIdRequest", "api.StdResponse"),
      Unary("MarkPrismAsClaimableByAccountId", "api.AccountIdRequest", "api.StdResponse")>>

ApiServiceInternal == <<Unary("TriggerRecreateClob", "api.Empty", "api.StdResponse")>>

ApiAuth ==
    <<Unary("GetChallenge", "api.ChallengeRequest", "api.StdResponse"),
      Unary("VerifyChallenge", "api.VerifyChallengeRequest", "api.StdResponse")>>

ApiServicePublicClientFirst ==
    <<Stub("Health", 0, "api.Empty", "api.StdResponse"),
      Stub("NewsLetter", 1, "api.NewsLetterRequest", "api.StdResponse"),
      Stub("CreatePredictionIntent", 2, "api.PrismPredictionIntentRequest", "api.StdResponse"),
      Stub("GetMarketById", 3, "api.MarketIdRequest", "api.MarketResponse"),
      Stub("GetMarkets", 4, "api.LimitOffsetRequest", "api.MarketsResponse"),
      Stub("PriceHistory", 5, "api.PriceHistoryRequest", "api.PriceHistoryResponse"),
      Stub("MacroMetadata", 6, "api.Empty", "api.MacroMetadataResponse"),
      Stub("CreateComment", 7, "api.CreateCommentRequest", "api.CreateCommentResponse"),
      Stub("GetComments", 8, "api.GetCommentsRequest", "api.GetCommentsResponse"),
      Stub("GetUserPortfolio", 9, "api.UserPortfolioRequest", "api.UserPortfolioResponse"),
      Stub("CancelPredictionIntent", 10, "api.CancelOrderRequest", "api.StdResponse"),
      Stub("GetTxHashes", 11, "api.TxIdRequest", "api.TxIdHashesResponse"),
      Stub("GetPredictionIntentMatches", 12, "api.GetMatchesRequest", "api.MatchesResponse"),
      Stub("GetPrism", 13, "api.AccountIdRequest", "api.PrismResponse"),
      Stub("ClaimPrism", 14, "api.ClaimPrismRequest", "api.StdResponse"),
      Stub("GetRewardsByMarketId", 15, "api.MarketIdRequest", "api.RewardsResponse")>>

ApiServicePublicClientRest ==
    <<Stub("GetRewardsByAccountId", 16, "api.AccountIdRequest", "api.RewardsResponse"),
      Stub("CreateMarketv2", 17, "api.CreateMarketv2Request", "api.CreateMarketResponse"),
      Stub("UpdateMarket", 18, "api.UpdateMarketRequest", "api.StdResponse"),
      Stub("PatchMarket", 19, "api.PatchMarketRequest", "api.MarketResponse"),
      Stub("DeleteMarket", 20, "api.MarketIdRequest", "api.StdResponse"),
      Stub("GetAllMatches", 21, "api.LimitOffsetRequest", "api.MatchesResponse"),
      Stub("GetAllPositions", 22, "api.LimitOffsetRequest", "api.PositionsResponse"),
      Stub("GetAllPredictionIntents", 23, "api.LimitOffsetRequest", "api.PredictionIntentsResponse"),
      Stub("ToggleMarketPause", 24, "api.MarketIdRequest", "api.StdResponse"),
      Stub("ToggleMarketSuspend", 25, "api.MarketIdRequest", "api.StdResponse"),
      Stub("DeleteComment", 26, "api.CommentIdRequest", "api.StdResponse"),
      Stub("ResolveMarket", 27, "api.ResolveMarketRequest", "api.StdResponse"),
      Stub("CreateCategory", 28, "api.CategoryRequest", "api.CategoryResponse"),
      Stub("UpdateCategory", 29, "api.CategoryRequest", "api.CategoryResponse"),
      Stub("DeleteCategory", 30, "api.CategoryIdRequest", "api.StdResponse"),
      Stub("MarkPrismAsClaimableByAccountId", 31, "api.AccountIdRequest", "api.StdResponse")>>

ApiServicePublicClient == ApiServicePublicClientFirst \o ApiServicePublicClientRest

ApiServiceInternalClient == <<Stub("TriggerRecreateClob", 0, "api.Empty", "api.StdResponse")>>

ApiAuthClient ==
    <<Stub("GetChallenge", 0, "api.ChallengeRequest", "api.StdResponse"),
      Stub("VerifyChallenge", 1, "api.VerifyChallengeRequest", "api.StdResponse")>>

\* The message types by their typeName.
Schema ==
    "api.Empty" :> Empty @@ "api.StdResponse" :> StdResponse
    @@ "api.LimitOffsetRequest" :> LimitOffsetRequest @@ "api.PaginationRes" :> PaginationRes
    @@ "api.MarketIdRequest" :> MarketIdRequest @@ "api.TxIdRequest" :> TxIdRequest
    @@ "api.AccountIdRequest" :> AccountIdRequest
    @@ "api.PrismPredictionIntentRequest" :> PrismPredictionIntentRequest
    @@ "api.Category" :> Category @@ "api.UnixDateRange" :> UnixDateRange
    @@ "api.MacroMetadataResponse" :> MacroMetadataResponse
    @@ "api.NewsLetterRequest" :> NewsLetterRequest
    @@ "api.UserPortfolioRequest" :> UserPortfolioRequest
    @@ "api.PredictionIntentResponse" :> PredictionIntentResponse
    @@ "api.PredictionIntents" :> PredictionIntents @@ "api.Match" :> Match
    @@ "api.GetMatchesRequest" :> GetMatchesRequest @@ "api.Position" :> Position
    @@ "api.PositionInfo" :> PositionInfo
    @@ "api.UserPortfolioResponse" :> UserPortfolioResponse
    @@ "api.MarketResponse" :> MarketResponse @@ "api.MarketsResponse" :> MarketsResponse
    @@ "api.PriceHistoryRequest" :> PriceHistoryRequest
    @@ "api.PriceHistoryResponse" :> PriceHistoryResponse
    @@ "api.GetCommentsRequest" :> GetCommentsRequest @@ "api.Comment" :> Comment
    @@ "api.CreateCommentResponse" :> CreateCommentResponse
    @@ "api.GetCommentsResponse" :> GetCommentsResponse
    @@ "api.CreateCommentRequest" :> CreateCommentRequest
    @@ "api.CancelOrderRequest" :> CancelOrderRequest @@ "api.TxHash" :> TxHash
    @@ "api.TxIdHashesResponse" :> TxIdHashesResponse
    @@ "api.ClaimPrismRequest" :> ClaimPrismRequest @@ "api.PrismResponse" :> PrismResponse
    @@ "api.LOMreward" :> LOMreward @@ "api.Pointsreward" :> Pointsreward
    @@ "api.RewardsResponse" :> RewardsResponse
    @@ "api.CreateMarketv2Request" :> CreateMarketv2Request
    @@ "api.CreateMarketResponse" :> CreateMarketResponse
    @@ "api.UpdateMarketRequest" :> UpdateMarketRequest
    @@ "api.PatchMarketRequest" :> PatchMarketRequest
    @@ "api.MatchesResponse" :> MatchesResponse @@ "api.PositionsResponse" :> PositionsResponse
    @@ "api.PredictionIntentsResponse" :> PredictionIntentsResponse
    @@ "api.CommentIdRequest" :> CommentIdRequest
    @@ "api.ResolveMarketRequest" :> ResolveMarketRequest
    @@ "api.CategoryRequest" :> CategoryRequest @@ "api.CategoryResponse" :> CategoryResponse
    @@ "api.CategoryIdRequest" :> CategoryIdRequest
    @@ "api.ChallengeRequest" :> ChallengeRequest
    @@ "api.VerifyChallengeRequest" :> VerifyChallengeRequest

\* The services by their typeName, and the stubs generated for them.
Services == "api.ApiServicePublic" :> ApiServicePublic @@ "api.ApiServiceInternal" :> ApiServiceInternal @@ "api.ApiAuth" :> ApiAuth

Clients == "api.ApiServicePublic" :> ApiServicePublicClient @@ "api.ApiServiceInternal" :> ApiServiceInternalClient @@ "api.ApiAuth" :> ApiAuthClient
-----------------------------------------------------------------------------
(* The interfaces of src/web/gen/api.ts: what the web client is compiled      *)
(* against.  A property has the name of its field.                           *)
EmptyType == {}

StdResponseType ==
    Prop("string", {"message"})
      \cup Prop("number", {"error_code"})

LimitOffsetRequestType == Prop("number", {"limit", "offset"})

PaginationResType ==
    Prop("number", {"limit", "offset", "next_offset"})
      \cup Prop("bigint", {"total"})
      \cup Prop("boolean", {"has_more"})

MarketIdRequestType ==
    Prop("string", {"market_id"})
      \cup OptProp("string", {"lang"})

TxIdRequestType == Prop("string", {"tx_id"})

AccountIdRequestType == Prop("string", {"account_id", "net"})

PrismPredictionIntentRequestType ==
    Prop("string", {"tx_id", "net", "market_id", "account_id", "sig", "public_key",
          "evm_address", "verifying_contract"})
      \cup Prop("number", {"key_type", "side", "action"})
      \cup Prop("bigint", {"chain_id", "limit_yes_price", "qty_shares", "collateral_cap",
          "deadline"})

CategoryType ==
    Prop("number", {"id"})
      \cup Prop("string", {"name"})

UnixDateRangeType == Prop("number", {"start", "end"})

MacroMetadataResponseType ==
    List("string", {"available_networks", "available_networks_admin"})
      \cup Dict("string", {"smart_contract_ids", "usdc_token_ids", "token_ids",
          "prism_v2_proxy_addresses"})
      \cup Prop("number", {"usdc_decimals", "n_markets", "min_order_size_usd",
          "tv_pending_usd", "tv_matched_usd", "tvl_usd", "active_traders"})
      \cup Prop("bigint", {"market_creation_fee_scaled_usdc"})
      \cup Dict("number", {"total_volume_usd"})
      \cup List("api.Category", {"categories"})
      \cup List("api.UnixDateRange", {"sig_scheme_date_ranges"})
      \cup Dict("bigint", {"chain_ids"})

NewsLetterRequestType == Prop("string", {"email"})

UserPortfolioRequestType ==
    Prop("string", {"evm_address", "net"})
      \cup OptProp("string", {"market_id"})

PredictionIntentResponseType ==
    Prop("string", {"tx_id", "net", "market_id", "generated_at", "account_id"})
      \cup Prop("number", {"side", "action"})
      \cup Prop("bigint", {"limit_yes_price", "qty_shares", "collateral_cap", "deadline",
          "shares_filled", "collateral_filled"})

PredictionIntentsType == List("api.PredictionIntentResponse", {"prediction_intents"})

MatchType ==
    Prop("string", {"market_id", "tx_id1", "tx_id2", "created_at", "tx_hash", "match_id",
          "status"})
      \cup Prop("number", {"price_usd", "qty1", "qty2", "price_usd1", "price_usd2"})
      \cup Prop("bigint", {"fill_shares", "execution_yes_price"})

GetMatchesRequestType ==
    Prop("string", {"market_id"})
      \cup OptProp("number", {"limit", "offset"})

PositionType ==
    Prop("string", {"market_id", "evm_address", "updated_at", "created_at"})
      \cup Prop("bigint", {"yes", "no"})

PositionInfoType ==
    OptProp("api.Position", {"position"})
      \cup Prop("number", {"price_usd"})
      \cup Prop("boolean", {"is_paused"})
      \cup Prop("string", {"resolved_at", "redeemed_at"})
      \cup OptProp("number", {"avg_price_yes_usd", "avg_price_no_usd", "cost_basis_yes_usd",
          "cost_basis_no_usd", "realized_pnl_usd"})
      \cup OptProp("string", {"cost_basis_as_of"})

UserPortfolioResponseType ==
    Dict("api.PositionInfo", {"positions"})
      \cup Dict("api.PredictionIntents", {"open_prediction_intents"})

MarketResponseType ==
    Prop("string", {"market_id", "net", "statement", "created_at", "resolved_at",
          "image_url", "description", "rules", "closes_at", "smart_contract_id", "alias_yes",
          "alias_no", "hex_color_yes", "hex_color_no"})
      \cup Prop("boolean", {"is_paused", "is_suspended", "is_lom_enabled"})
      \cup Prop("number", {"price_usd", "rake_percent"})
      \cup OptProp("number", {"outcome"})
      \cup List("number", {"category_ids"})

MarketsResponseType == List("api.MarketResponse", {"markets"})

PriceHistoryRequestType ==
    Prop("string", {"market_id", "net", "resolution", "from", "to"})
      \cup OptProp("number", {"limit", "offset"})

PriceHistoryResponseType ==
    List("bigint", {"timestamp_ms"})
      \cup List("number", {"price_usd"})

GetCommentsRequestType ==
    Prop("string", {"market_id"})
      \cup OptProp("number", {"limit", "offset"})

CommentType ==
    Prop("string", {"account_id", "content", "sig", "public_key", "created_at"})
      \cup Prop("number", {"key_type"})

CreateCommentResponseType == OptProp("api.Comment", {"comment"})

GetCommentsResponseType == List("api.Comment", {"comments"})

CreateCommentRequestType ==
    Prop("string", {"market_id", "account_id", "content", "sig", "public_key"})
      \cup Prop("number", {"key_type"})

CancelOrderRequestType ==
    Prop("string", {"market_id", "tx_id", "net", "account_id", "sig", "public_key"})
      \cup Prop("number", {"key_type"})

TxHashType ==
    Prop("string", {"tx_hash"})
      \cup Prop("number", {"qty"})

TxIdHashesResponseType == List("api.TxHash", {"tx_hashes"})

ClaimPrismRequestType ==
    Prop("string", {"account_id", "net", "sig", "public_key"})
      \cup Prop("number", {"key_type"})

PrismResponseType == Prop("bigint", {"prism_balance", "prism_unredeemed", "prism_redeemable"})

LOMrewardType ==
    Prop("string", {"market_id", "account_id", "created_at"})
      \cup Prop("number", {"distance", "size", "duration", "lom_score"})

PointsrewardType ==
    Prop("string", {"market_id", "account_id", "created_at"})
      \cup Prop("number", {"points"})

RewardsResponseType ==
    List("api.LOMreward", {"lom_rewards"})
      \cup List("api.Pointsreward", {"points_rewards"})

CreateMarketv2RequestType ==
    Prop("string", {"market_id", "net", "statement", "description", "rules", "img_file_name",
          "img_mime_type"})
      \cup OptProp("string", {"closes_at", "alias_yes", "alias_no", "hex_color_yes",
          "hex_color_no"})
      \cup List("number", {"category_ids"})
      \cup Prop("api.Uint8Array", {"img_chunk"})
      \cup OptProp("boolean", {"is_lom_enabled"})

CreateMarketResponseType ==
    OptProp("api.MarketResponse", {"market_response"})
      \cup Prop("bigint", {"remaining_allowance"})

UpdateMarketRequestType ==
    Prop("string", {"market_id"})
      \cup List("number", {"category_ids"})

PatchMarketRequestType ==
    Prop("string", {"market_id"})
      \cup OptProp("string", {"closes_at", "description", "rules", "category_ids_str_arr",
          "img_file_name", "img_mime_type", "alias_yes", "alias_no", "hex_color_yes",
          "hex_color_no"})
      \cup OptProp("api.Uint8Array", {"img_chunk"})
      \cup OptProp("boolean", {"is_lom_enabled"})

MatchesResponseType ==
    List("api.Match", {"matches"})
      \cup OptProp("api.PaginationRes", {"pagination"})

PositionsResponseType ==
    List("api.Position", {"positions"})
      \cup OptProp("api.PaginationRes", {"pagination"})

PredictionIntentsResponseType ==
    List("api.PrismPredictionIntentRequest", {"prediction_intents"})
      \cup OptProp("api.PaginationRes", {"pagination"})

CommentIdRequestType == Prop("number", {"comment_id"})

ResolveMarketRequestType ==
    Prop("string", {"market_id"})
      \cup Prop("number", {"outcome"})

CategoryRequestType ==
    OptProp("number", {"category_id"})
      \cup Prop("string", {"name", "description"})
      \cup Prop("boolean", {"is_active"})

CategoryResponseType ==
    Prop("number", {"id"})
      \cup Prop("string", {"name", "description"})
      \cup Prop("boolean", {"is_active"})

CategoryIdRequestType == Prop("number", {"category_id"})

ChallengeRequestType == Prop("string", {"account_id", "network"})

VerifyChallengeRequestType ==
    Prop("string", {"challenge_response_base64", "payload"})
      \cup OptProp("api.ChallengeRequest", {"challenge_request"})

\* The interfaces by the typeName of their message.
Interfaces ==
    "api.Empty" :> EmptyType @@ "api.StdResponse" :> StdResponseType
    @@ "api.LimitOffsetRequest" :> LimitOffsetRequestType @@ "api.PaginationRes" :> PaginationResType
    @@ "api.MarketIdRequest" :> MarketIdRequestType @@ "api.TxIdRequest" :> TxIdRequestType
    @@ "api.AccountIdRequest" :> AccountIdRequestType
    @@ "api.PrismPredictionIntentRequest" :> PrismPredictionIntentRequestType
    @@ "api.Category" :> CategoryType @@ "api.UnixDateRange" :> UnixDateRangeType
    @@ "api.MacroMetadataResponse" :> MacroMetadataResponseType
    @@ "api.NewsLetterRequest" :> NewsLetterRequestType
    @@ "api.UserPortfolioRequest" :> UserPortfolioRequestType
    @@ "api.PredictionIntentResponse" :> PredictionIntentResponseType
    @@ "api.PredictionIntents" :> PredictionIntentsType @@ "api.Match" :> MatchType
    @@ "api.GetMatchesRequest" :> GetMatchesRequestType @@ "api.Position" :> PositionType
    @@ "api.PositionInfo" :> PositionInfoType
    @@ "api.UserPortfolioResponse" :> UserPortfolioResponseType
    @@ "api.MarketResponse" :> MarketResponseType @@ "api.MarketsResponse" :> MarketsResponseType
    @@ "api.PriceHistoryRequest" :> PriceHistoryRequestType
    @@ "api.PriceHistoryResponse" :> PriceHistoryResponseType
    @@ "api.GetCommentsRequest" :> GetCommentsRequestType @@ "api.Comment" :> CommentType
    @@ "api.CreateCommentResponse" :> CreateCommentResponseType
    @@ "api.GetCommentsResponse" :> GetCommentsResponseType
    @@ "api.CreateCommentRequest" :> CreateCommentRequestType
    @@ "api.CancelOrderRequest" :> CancelOrderRequestType @@ "api.TxHash" :> TxHashType
    @@ "api.TxIdHashesResponse" :> TxIdHashesResponseType
    @@ "api.ClaimPrismRequest" :> ClaimPrismRequestType @@ "api.PrismResponse" :> PrismResponseType
    @@ "api.LOMreward" :> LOMrewardType @@ "api.Pointsreward" :> PointsrewardType
    @@ "api.RewardsResponse" :> RewardsResponseType
    @@ "api.CreateMarketv2Request" :> CreateMarketv2RequestType
    @@ "api.CreateMarketResponse" :> CreateMarketResponseType
    @@ "api.UpdateMarketRequest" :> UpdateMarketRequestType
    @@ "api.PatchMarketRequest" :> PatchMarketRequestType
    @@ "api.MatchesResponse" :> MatchesResponseType @@ "api.PositionsResponse" :> PositionsResponseType
    @@ "api.PredictionIntentsResponse" :> PredictionIntentsResponseType
    @@ "api.CommentIdRequest" :> CommentIdRequestType
    @@ "api.ResolveMarketRequest" :> ResolveMarketRequestType
    @@ "api.CategoryRequest" :> CategoryRequestType @@ "api.CategoryResponse" :> CategoryResponseType
    @@ "api.CategoryIdRequest" :> CategoryIdRequestType
    @@ "api.ChallengeRequest" :> ChallengeRequestType
    @@ "api.VerifyChallengeRequest" :> VerifyChallengeRequestType
-----------------------------------------------------------------------------
(* src/web/gen/clob.ts and clob.client.ts. *)


ClobEmpty == << >>

CreateOrderRequestClob ==
    <<One(1, "tx_id", "string"), One(2, "net", "string"), One(3, "market_id", "string"),
      One(4, "account_id", "string"), One(8, "sig", "string"), One(9, "public_key", "string"),
      One(10, "evm_address", "string"), One(11, "key_type", "int32"),
      One(13, "chain_id", "uint64"), One(14, "verifying_contract", "string"),
      One(15, "side", "uint32"), One(16, "action", "uint32"),
      One(17, "limit_yes_price", "uint64"), One(18, "qty_shares", "uint64"),
      One(19, "collateral_cap", "uint64"), One(20, "deadline", "uint64"),
      One(21, "shares_filled", "uint64"), One(22, "collateral_filled", "uint64")>>

ClobStdResponse == <<One(1, "message", "string"), One(2, "error_code", "int32")>>

BookRequest == <<One(1, "market_id", "string"), One(2, "depth", "uint32")>>

OrderDetail ==
    <<One(1, "tx_id", "string"), One(2, "account_id", "string"),
      One(6, "limit_yes_price", "uint64"), One(7, "shares_remaining", "uint64"),
      One(8, "side", "uint32"), One(9, "action", "uint32")>>

BookSnapshot == <<Rep(1, "bids", "clob.OrderDetail"), Rep(2, "asks", "clob.OrderDetail")>>

CreateMarketRequest == <<One(1, "market_id", "string")>>

ClobMarketIdRequest == <<One(1, "market_id", "string")>>

PriceUpdate ==
    <<One(1, "price_bid_usd", "double"), One(2, "price_ask_usd", "double"),
      One(3, "timestamp_ms", "int64")>>

ClobCancelOrderRequest == <<One(1, "market_id", "string"), One(2, "tx_id", "string")>>

UserRequest == <<One(1, "evm_address", "string")>>

OrdersForUserResponse == <<Rep(1, "open_orders", "clob.CreateOrderRequestClob")>>

MarketDepthQtyResponse == <<One(3, "shares_bid", "uint64"), One(4, "shares_ask", "uint64")>>

ClobPublic ==
    <<Unary("Health", "clob.Empty", "clob.StdResponse"),
      Unary("GetBook", "clob.BookRequest", "clob.BookSnapshot"),
      Streaming("StreamBook", "clob.BookRequest", "clob.BookSnapshot"),
      Unary("GetPrice", "clob.MarketIdRequest", "clob.PriceUpdate"),
      Streaming("StreamPrice", "clob.MarketIdRequest", "clob.PriceUpdate")>>

ClobInternal ==
    <<Unary("CreateOrder", "clob.CreateOrderRequestClob", "clob.StdResponse"),
      Unary("CreateMarket", "clob.CreateMarketRequest", "clob.StdResponse"),
      Unary("CloseMarket", "clob.MarketIdRequest", "clob.StdResponse"),
      Unary("CancelOrder", "clob.CancelOrderRequest", "clob.StdResponse"),
      Unary("GetOrdersForUser", "clob.UserRequest", "clob.OrdersForUserResponse"),
      Unary("GetTvPendingUsd", "clob.Empty", "clob.StdResponse"),
      Unary("GetMarketDepthQty", "clob.MarketIdRequest", "clob.MarketDepthQtyResponse")>>

ClobPublicClient ==
    <<Stub("Health", 0, "clob.Empty", "clob.StdResponse"),
      Stub("GetBook", 1, "clob.BookRequest", "clob.BookSnapshot"),
      Stub("StreamBook", 2, "clob.BookRequest", "clob.BookSnapshot"),
      Stub("GetPrice", 3, "clob.MarketIdRequest", "clob.PriceUpdate"),
      Stub("StreamPrice", 4, "clob.MarketIdRequest", "clob.PriceUpdate")>>

ClobInternalClient ==
    <<Stub("CreateOrder", 0, "clob.CreateOrderRequestClob", "clob.StdResponse"),
      Stub("CreateMarket", 1, "clob.CreateMarketRequest", "clob.StdResponse"),
      Stub("CloseMarket", 2, "clob.MarketIdRequest", "clob.StdResponse"),
      Stub("CancelOrder", 3, "clob.CancelOrderRequest", "clob.StdResponse"),
      Stub("GetOrdersForUser", 4, "clob.UserRequest", "clob.OrdersForUserResponse"),
      Stub("GetTvPendingUsd", 5, "clob.Empty", "clob.StdResponse"),
      Stub("GetMarketDepthQty", 6, "clob.MarketIdRequest", "clob.MarketDepthQtyResponse")>>

\* The message types of clob.ts by their typeName.
ClobSchema ==
    "clob.Empty" :> ClobEmpty @@ "clob.CreateOrderRequestClob" :> CreateOrderRequestClob
    @@ "clob.StdResponse" :> ClobStdResponse @@ "clob.BookRequest" :> BookRequest
    @@ "clob.OrderDetail" :> OrderDetail @@ "clob.BookSnapshot" :> BookSnapshot
    @@ "clob.CreateMarketRequest" :> CreateMarketRequest
    @@ "clob.MarketIdRequest" :> ClobMarketIdRequest @@ "clob.PriceUpdate" :> PriceUpdate
    @@ "clob.CancelOrderRequest" :> ClobCancelOrderRequest @@ "clob.UserRequest" :> UserRequest
    @@ "clob.OrdersForUserResponse" :> OrdersForUserResponse
    @@ "clob.MarketDepthQtyResponse" :> MarketDepthQtyResponse

\* The services by their typeName, and the stubs generated for them.
ClobServices == "clob.ClobPublic" :> ClobPublic @@ "clob.ClobInternal" :> ClobInternal

ClobClients == "clob.ClobPublic" :> ClobPublicClient @@ "clob.ClobInternal" :> ClobInternalClient
-----------------------------------------------------------------------------
(* The interfaces of src/web/gen/clob.ts. *)

ClobEmptyType == {}

CreateOrderRequestClobType ==
    Prop("string", {"tx_id", "net", "market_id", "account_id", "sig", "public_key",
          "evm_address", "verifying_contract"})
      \cup Prop("number", {"key_type", "side", "action"})
      \cup Prop("bigint", {"chain_id", "limit_yes_price", "qty_shares", "collateral_cap",
          "deadline", "shares_filled", "collateral_filled"})

ClobStdResponseType ==
    Prop("string", {"message"})
      \cup Prop("number", {"error_code"})

BookRequestType ==
    Prop("string", {"market_id"})
      \cup Prop("number", {"depth"})

OrderDetailType ==
    Prop("string", {"tx_id", "account_id"})
      \cup Prop("bigint", {"limit_yes_price", "shares_remaining"})
      \cup Prop("number", {"side", "action"})

BookSnapshotType == List("clob.OrderDetail", {"bids", "asks"})

CreateMarketRequestType == Prop("string", {"market_id"})

ClobMarketIdRequestType == Prop("string", {"market_id"})

PriceUpdateType ==
    Prop("number", {"price_bid_usd", "price_ask_usd"})
      \cup Prop("bigint", {"timestamp_ms"})

ClobCancelOrderRequestType == Prop("string", {"market_id", "tx_id"})

UserRequestType == Prop("string", {"evm_address"})

OrdersForUserResponseType == List("clob.CreateOrderRequestClob", {"open_orders"})

MarketDepthQtyResponseType == Prop("bigint", {"shares_bid", "shares_ask"})

\* The interfaces by the typeName of their message.
ClobInterfaces ==
    "clob.Empty" :> ClobEmptyType @@ "clob.CreateOrderRequestClob" :> CreateOrderRequestClobType
    @@ "clob.StdResponse" :> ClobStdResponseType @@ "clob.BookRequest" :> BookRequestType
    @@ "clob.OrderDetail" :> OrderDetailType @@ "clob.BookSnapshot" :> BookSnapshotType
    @@ "clob.CreateMarketRequest" :> CreateMarketRequestType
    @@ "clob.MarketIdRequest" :> ClobMarketIdRequestType @@ "clob.PriceUpdate" :> PriceUpdateType
    @@ "clob.CancelOrderRequest" :> ClobCancelOrderRequestType @@ "clob.UserRequest" :> UserRequestType
    @@ "clob.OrdersForUserResponse" :> OrdersForUserResponseType
    @@ "clob.MarketDepthQtyResponse" :> MarketDepthQtyResponseType
=============================================================================
