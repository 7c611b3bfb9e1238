SPECIFICATION Spec

CONSTANTS
    \* the simulated execution of a signal
    Prices = {1, 2, 3, 4}
    MaxFuture = 2
    max_hold_candles = 2
    HalfSpread = 1
    Slippage = 1
    MakerRate = 1
    TakerRate = 2
    FeeScale = 10
    RiskAmount = 4
    MinNotional = 2
    Equity = 12
    \* the replay
    ReplaySymbols = {a, b}
    max_open_positions = 2
    max_trades_per_day = 2
    cooldown_candles = 1
    hard_pause_consecutive_losses = 2
    required_candle_count = 2
    Candles = 6
    MaxHold = 2
    MaxDays = 2
    \* the gates
    None = None
    Gross <- MCGross
    Fees = {0, 2}
    Months = {1, 2}
    MaxExecutions = 3
    SuiteNames = {u1, u2}
    Strategies = {t1}
    CandleScenarios = {c1}
    GridScenarios = {g1}
    UnknownName = x
    \* the stage scripts
    FlatFees = {0, 1, 2}
    RealFees = {0, 1, 3}
    SignalSteps = {1, 2}
    StagePnls <- MCStagePnls
    MaxStageTrades = 3
    V2Attempts = 2
    \* research on grids
    GridPrices = {1, 2, 3, 4}
    HalfLevels = 1
    capital_per_level = 12
    LotSizes = {0, 2}
    GridFee = 1
    GridFeeScale = 20
    WindowCandles = 1
    GridWindows = 2
    min_completed_cycles = 1
    min_annualized_yield_pct = 10
    min_step_pct <- MCMinStep
    target_n_levels = 7
    TopConfigs = 2
    SweepYields <- MCSweepYields
    AdvicePrices = {2, 3, 4, 5, 6}
    atr_period = 2
    atr_multiplier = 2
    \* the strategies
    StrategyCloses = {2, 3, 5, 6}
    SwingCloses = {2, 3, 4}
    Wicks = {0, 1}
    WindowLength = 5
    LongWindowLength = 9
    FastPeriod = 2
    SlowPeriod = 3
    AtrPeriod = 2
    RsiPeriod = 2
    LookbackPeriod = 2
    TrendCandles = 2
    BandPeriod = 3
    SqueezeLookback = 1
    SwingWing = 1
    SwingLookback = 5
    MinRRR <- MCMinRRR
    StopMultiple <- MCStopMultiple
    TargetMultiple <- MCTargetMultiple
    ReversionStop <- MCReversionStop
    MinDeviation <- MCMinDeviation
    CostFraction <- MCCostFraction
    VwapTolerance <- MCVwapTolerance
    Offset <- MCOffset
    MinDayCandles = 3
    AdxPeriod = 2
    AdxThreshold = 50
    RsiLong = 40
    RsiShort = 60

INVARIANTS
    BacktestIsNotOptimistic
    PortfolioLimitsHold
    LossHelpsOnlyTheCount
    GateCoversSuite
    GridResearchAddsUp
    SignalsAreTradable
    VerdictsAgree

\* the inputs take no step, and a replay ends
CHECK_DEADLOCK FALSE
